---- MODULE Spec2Model ----
(***************************************************************************)
(* A model of cosmic-randr: the message channel (lib/src/channel.rs), the  *)
(* protocol object model built by the Dispatch handlers                    *)
(* (lib/src/output_manager.rs, output_head.rs, output_mode.rs), the        *)
(* configuration transaction (lib/src/context.rs) and the dispatch loop of *)
(* the CLI (lib/src/lib.rs, cli/src/main.rs).                              *)
(*                                                                         *)
(* Each subsystem has its own specification over its own variables; the    *)
(* variables a specification does not use stay at their initial value.     *)
(***************************************************************************)
EXTENDS Integers, Sequences, FiniteSets, TLC

VARIABLES
    \* ---- channel.rs: Channel { queue, notify, closed } and its two ends
    queue,          \* VecDeque<Message>
    closed,         \* AtomicBool
    permit,         \* tokio Notify: a stored notification permit
    tx_pc,          \* position of the sending side
    rx_pc,          \* position of the receiver inside recv
    rx_result,      \* what the last recv returned: "Some" (the value is the last of received), "None", or "pending"
    n_sent,         \* how many messages send has pushed
    received,       \* values returned by recv, in order
    \* ---- context.rs: Context
    output_manager,                 \* Option<ZwlrOutputManagerV1>: is it Some
    cosmic_output_manager,          \* Option<ZcosmicOutputManagerV1>: is it Some
    output_manager_serial,          \* u32
    output_heads,                   \* HashMap<ObjectId, OutputHead>
    cosmic_manager_sync_callback,   \* Option<WlCallback>
    done_queued,                    \* bool
    \* ---- the server's side of the connection
    heads_seen,     \* head objects the server has announced so far
    mode_data,      \* per announced mode object: its user data Mutex<Option<ObjectId>> (the owning head)
    srv_modes,      \* mode objects the server has announced and not finished
    pending_syncs,  \* wl_display.sync callbacks requested and not yet answered, oldest first
    n_syncs,        \* how many sync callbacks were created
    n_done,         \* how many done events the manager has sent
    mgr_finished,   \* the server has sent the manager's finished event
    \* ---- context.rs: Configuration (one transaction) and its caller
    txn,                \* "none", "open", "tested", "applied", "cancelled" or "panicked"
    known_heads,        \* Vec<OutputHead>: the snapshot taken at open time
    configured_heads,   \* Vec<String>
    cosmic_obj,         \* Option<ZcosmicOutputConfigurationV1>: is it Some
    txn_serial,         \* the serial create_configuration was sent with
    requests,           \* protocol requests emitted on the transaction, in order
    last_call,          \* the last call on the transaction: its arguments and what it returned
    n_calls,            \* how many staging calls the caller has made
    \* ---- the connection (lib.rs: async_dispatch) and the caller (cli/src/main.rs)
    wire,           \* events the server has written that the client has not read yet
    evq,            \* the event queue: events read and not yet dispatched
    cli_pc,         \* the caller: "caller", "receiving", "dispatching" or "returned"
    srv_script,     \* events the server is still going to write for the transaction
    outcome,        \* the server's verdict on the finalized transaction, or "none"
    \* ---- wl_registry.rs: the globals and the binds
    advertised,             \* the registry's Global events so far: interface and version
    output_manager_version, \* Context.output_manager_version
    bind_version,           \* the version each manager was last bound at (0: never bound)
    dsp_pc,                 \* async_dispatch: the position of the call, or "panicked"
    pending,                \* the number of events buffered in the EventQueue
    socket,                 \* what the connection's fd reports: "readable", "error"
    ready,                  \* the result of fd.ready(..).await, before the match
    io_done,                \* the connection operations the current call has made
    at_call,                \* the number of events buffered when dispatch was called
    dsp_result,             \* what the last call of dispatch returned
    n_intr,                 \* the interrupted waits of the current call
    proxy_requests,         \* the release and stop requests sent on heads, modes, the manager
    fn_args,                \* the arguments of the pure function under study
    fn_value,               \* what it returned (None before the call)
    app                     \* cli/src/main.rs: the App flow in progress and its locals

chanVars == <<queue, closed, permit, tx_pc, rx_pc, rx_result, n_sent, received>>
ctxVars == <<output_manager, cosmic_output_manager, output_manager_serial, output_heads,
             cosmic_manager_sync_callback, done_queued>>
srvVars == <<heads_seen, mode_data, srv_modes, pending_syncs, n_syncs, n_done, mgr_finished>>

txnVars == <<txn, known_heads, configured_heads, cosmic_obj, txn_serial, requests, last_call,
             n_calls>>

flowVars == <<wire, evq, cli_pc, srv_script, outcome>>

regVars == <<advertised, output_manager_version, bind_version>>

dspVars == <<dsp_pc, pending, socket, ready, io_done, at_call, dsp_result, n_intr>>

objVars == <<proxy_requests>>

pureVars == <<fn_args, fn_value>>

cliVars == <<app>>

vars == <<chanVars, ctxVars, srvVars, txnVars, flowVars, regVars, dspVars, objVars, pureVars, cliVars>>

\* What the actions of one subsystem leave alone.
exceptChan == <<ctxVars, srvVars, txnVars, flowVars, regVars, dspVars, objVars, pureVars, cliVars>>
exceptRelease == <<closed, tx_pc, rx_result, n_sent, received, txnVars, regVars, dspVars,
                   pureVars, cliVars>>
exceptModel == <<exceptRelease, objVars>>
exceptTxn == <<chanVars, ctxVars, srvVars, flowVars, regVars, dspVars, objVars, pureVars, cliVars>>

\* Option<T>: None is the empty sequence, Some(x) a sequence of one element.
None == <<>>
Some(x) == <<x>>
Unwrap(o) == o[1]

(***************************************************************************)
(* Message channel                                                         *)
(***************************************************************************)

\* Largest number of messages the sender pushes before it is dropped.
MaxSend == 2

ChanIdle ==
    /\ queue = <<>>
    /\ closed = FALSE
    /\ permit = FALSE
    /\ tx_pc = "idle"
    /\ rx_pc = "idle"
    /\ rx_result = "pending"
    /\ n_sent = 0
    /\ received = <<>>

\* Context::connect before the registry round-trips: nothing bound, no heads.
CtxIdle ==
    /\ output_manager = FALSE
    /\ cosmic_output_manager = FALSE
    /\ output_manager_serial = 0
    /\ output_heads = <<>>
    /\ cosmic_manager_sync_callback = None
    /\ done_queued = FALSE
    /\ heads_seen = {}
    /\ mode_data = <<>>
    /\ srv_modes = {}
    /\ pending_syncs = <<>>
    /\ n_syncs = 0
    /\ n_done = 0
    /\ mgr_finished = FALSE

\* No transaction has been opened.
TxnIdle ==
    /\ txn = "none"
    /\ known_heads = <<>>
    /\ configured_heads = <<>>
    /\ cosmic_obj = FALSE
    /\ txn_serial = 0
    /\ requests = <<>>
    /\ last_call = [op |-> "none", output |-> "", mirrored |-> "", mode |-> None,
                    result |-> "", n_before |-> 0]
    /\ n_calls = 0

\* The versions of the base manager the client accepts and the highest it
\* binds; the version the extension manager is bound with, which every
\* extension object created from it has.
BaseMinVersion == 2
BaseMaxVersion == 4
CosmicBindVersion == 1

WLR_MANAGER == "zwlr_output_manager_v1"
COSMIC_MANAGER == "zcosmic_output_manager_v1"

Min(a, b) == IF a < b THEN a ELSE b

\* A bind of the base manager that asks for the advertised version.
BindVersion_Advertised(version) == version

\* registry.bind::<ZwlrOutputManagerV1>(name, version.min(4), ..)
BindVersion(version) == Min(version, BaseMaxVersion)

Global(interface, version) == [interface |-> interface, version |-> version]

\* The registry state after the server advertised the base manager at version
\* wlr and the extension manager at version cosmic (0: not advertised).
RegBoundAt(wlr, cosmic) ==
    /\ advertised = (IF wlr > 0 THEN <<Global(WLR_MANAGER, wlr)>> ELSE <<>>)
                    \o (IF cosmic > 0 THEN <<Global(COSMIC_MANAGER, cosmic)>> ELSE <<>>)
    /\ output_manager_version = IF wlr >= BaseMinVersion THEN wlr ELSE 0
    /\ bind_version = [wlr |-> IF wlr >= BaseMinVersion THEN BindVersion(wlr) ELSE 0,
                       cosmic |-> IF cosmic > 0 THEN CosmicBindVersion ELSE 0]

\* The registry state that goes with the managers the context holds.
RegAsBound ==
    RegBoundAt(IF output_manager THEN BaseMaxVersion ELSE 0,
               IF cosmic_output_manager THEN CosmicBindVersion ELSE 0)

\* Nothing is in flight on the connection and the caller is not waiting.
FlowIdle ==
    /\ wire = <<>>
    /\ evq = <<>>
    /\ cli_pc = "caller"
    /\ srv_script = <<>>
    /\ outcome = "none"

\* No release or stop request has been sent.
NoProxyRequests == proxy_requests = {}

\* No function is under study.
NoFunction ==
    /\ fn_args = <<>>
    /\ fn_value = <<>>

\* No flow of the App has started.
AppIdle ==
    app = [pc |-> "start", output |-> "", test |-> FALSE, planned |-> None,
           updates |-> <<>>, corrections |-> <<>>, finalized |-> 0]

\* No call of dispatch is in progress and nothing is buffered.
DispatchIdle ==
    /\ dsp_pc = "idle"
    /\ pending = 0
    /\ socket = {}
    /\ ready = <<>>
    /\ io_done = {}
    /\ at_call = 0
    /\ dsp_result = <<>>
    /\ n_intr = 0

InitChan ==
    /\ ChanIdle
    /\ CtxIdle
    /\ TxnIdle
    /\ FlowIdle
    /\ DispatchIdle
    /\ NoProxyRequests
    /\ NoFunction
    /\ AppIdle
    /\ RegAsBound

\* A notification that is dropped when no task is waiting.
NotifyOne_NoPermit ==
    IF rx_pc = "waiting"
    THEN /\ rx_pc' = "pop"
         /\ permit' = permit
    ELSE /\ permit' = permit
         /\ rx_pc' = rx_pc

\* tokio::sync::Notify::notify_one: wake the waiting task, or store a permit.
NotifyOne ==
    IF rx_pc = "waiting"
    THEN /\ rx_pc' = "pop"
         /\ permit' = permit
    ELSE /\ permit' = TRUE
         /\ rx_pc' = rx_pc

\* A send that pushes at the front of the queue.
SendPush_Front ==
    /\ tx_pc = "idle"
    /\ n_sent < MaxSend
    /\ queue' = <<n_sent + 1>> \o queue
    /\ n_sent' = n_sent + 1
    /\ tx_pc' = "notify"
    /\ UNCHANGED <<closed, permit, rx_pc, rx_result, received>>
    /\ UNCHANGED exceptChan

\* Sender::send, first statement: queue.lock().await.push_back(message)
SendPush ==
    /\ tx_pc = "idle"
    /\ n_sent < MaxSend
    /\ queue' = Append(queue, n_sent + 1)
    /\ n_sent' = n_sent + 1
    /\ tx_pc' = "notify"
    /\ UNCHANGED <<closed, permit, rx_pc, rx_result, received>>
    /\ UNCHANGED exceptChan

\* Sender::send, second statement: notify.notify_one()
SendNotify ==
    /\ tx_pc = "notify"
    /\ NotifyOne
    /\ tx_pc' = "idle"
    /\ UNCHANGED <<queue, closed, rx_result, n_sent, received>>
    /\ UNCHANGED exceptChan

\* Drop for Sender, first statement: closed.store(true)
DropStore ==
    /\ tx_pc = "idle"
    /\ closed' = TRUE
    /\ tx_pc' = "drop_notify"
    /\ UNCHANGED <<queue, permit, rx_pc, rx_result, n_sent, received>>
    /\ UNCHANGED exceptChan

\* Drop for Sender, second statement: notify.notify_one()
DropNotify ==
    /\ tx_pc = "drop_notify"
    /\ NotifyOne
    /\ tx_pc' = "dropped"
    /\ UNCHANGED <<queue, closed, rx_result, n_sent, received>>
    /\ UNCHANGED exceptChan

\* The caller enters Receiver::recv.
RecvCall ==
    /\ rx_pc = "idle"
    /\ rx_pc' = "pop"
    /\ rx_result' = "pending"
    /\ UNCHANGED <<queue, closed, permit, tx_pc, n_sent, received>>
    /\ UNCHANGED exceptChan

\* recv: if let Some(value) = queue.lock().await.pop_front() { return Some(value) }
RecvPop ==
    /\ rx_pc = "pop"
    /\ IF queue # <<>>
       THEN /\ rx_result' = "Some"
            /\ received' = Append(received, Head(queue))
            /\ queue' = Tail(queue)
            /\ rx_pc' = "idle"
       ELSE /\ rx_pc' = "check_closed"
            /\ UNCHANGED <<queue, rx_result, received>>
    /\ UNCHANGED <<closed, permit, tx_pc, n_sent>>
    /\ UNCHANGED exceptChan

\* recv: if closed.load() { return None }
RecvCheckClosed ==
    /\ rx_pc = "check_closed"
    /\ IF closed
       THEN /\ rx_result' = "None"
            /\ rx_pc' = "idle"
       ELSE /\ rx_pc' = "notified"
            /\ UNCHANGED rx_result
    /\ UNCHANGED <<queue, closed, permit, tx_pc, n_sent, received>>
    /\ UNCHANGED exceptChan

\* recv: notify.notified().await -- take a stored permit or become the waiter
RecvNotified ==
    /\ rx_pc = "notified"
    /\ IF permit
       THEN /\ permit' = FALSE
            /\ rx_pc' = "pop"
       ELSE /\ rx_pc' = "waiting"
            /\ UNCHANGED permit
    /\ UNCHANGED <<queue, closed, tx_pc, rx_result, n_sent, received>>
    /\ UNCHANGED exceptChan

NextChan ==
    \/ SendPush
    \/ SendNotify
    \/ DropStore
    \/ DropNotify
    \/ RecvCall
    \/ RecvPop
    \/ RecvCheckClosed
    \/ RecvNotified

SpecChan == InitChan /\ [][NextChan]_vars

\* C6: recv returns end-of-stream (None) only when the sender has been
\* dropped and the queue is empty; it never returns None while a message
\* sent before the drop is still queued.
C6_RecvNoneOnlyWhenDrained ==
    (rx_pc = "idle" /\ rx_result = "None") => (closed /\ queue = <<>>)

(***************************************************************************)
(* Protocol object model: the Dispatch handlers                            *)
(***************************************************************************)

\* How many head objects, mode objects and configuration serials the server uses.
MaxHeads == 2
MaxModes == 2
MaxSerial == 2
MaxDone == 4

HeadIds == 1..MaxHeads
ModeIds == 1..MaxModes
Names == {"A", "B"}
Sizes == {<<1, 1>>, <<2, 1>>}
Refreshes == {59940, 60000}

\* OutputHead::new
OutputHead_new(wlr_head, cosmic_head) ==
    [wlr_head |-> wlr_head, cosmic_head |-> cosmic_head, name |-> "",
     enabled |-> FALSE, mirroring |-> None, current_mode |-> None, modes |-> <<>>]

\* OutputMode::new
OutputMode_new(wlr_mode) ==
    [wlr_mode |-> wlr_mode, width |-> 0, height |-> 0, refresh |-> 0, preferred |-> FALSE]

\* HashMap::insert / HashMap::remove on output_heads
MapInsert(map, key, value) ==
    [k \in DOMAIN map \cup {key} |-> IF k = key THEN value ELSE map[k]]
MapRemove(map, key) ==
    [k \in DOMAIN map \ {key} |-> map[k]]

\* IndexMap<ObjectId, OutputMode> is a sequence of modes with distinct wlr_mode.
ModeKeys(modes) == {modes[i].wlr_mode : i \in DOMAIN modes}
ModeIndex(modes, id) == CHOOSE i \in DOMAIN modes : modes[i].wlr_mode = id

\* IndexMap::shift_remove: drop the entry, keep the order of the others.
ShiftRemove(modes, id) ==
    SelectSeq(modes, LAMBDA mode : mode.wlr_mode # id)

\* IndexMap::insert: replace the value in place, or append a new entry.
IndexInsert(modes, id, mode) ==
    IF id \in ModeKeys(modes)
    THEN [modes EXCEPT ![ModeIndex(modes, id)] = mode]
    ELSE Append(modes, mode)

\* IndexMap::entry(id).or_insert_with(|| OutputMode::new(proxy))
OrInsert(modes, id) ==
    IF id \in ModeKeys(modes) THEN modes ELSE Append(modes, OutputMode_new(id))

\* Context::send: Sender::send pushes the message and notifies the receiver.
ContextSend(message) ==
    /\ queue' = Append(queue, message)
    /\ NotifyOne

NoSend == UNCHANGED <<queue, permit, rx_pc>>

\* Dispatch<ZwlrOutputManagerV1>::event, Head { head }
ManagerHead(head) ==
    /\ output_manager
    /\ ~mgr_finished
    /\ head \notin heads_seen
    /\ heads_seen' = heads_seen \cup {head}
    /\ IF cosmic_output_manager
       THEN /\ n_syncs' = n_syncs + 1
            /\ pending_syncs' = Append(pending_syncs, n_syncs + 1)
            /\ cosmic_manager_sync_callback' = Some(n_syncs + 1)
       ELSE UNCHANGED <<n_syncs, pending_syncs, cosmic_manager_sync_callback>>
    /\ output_heads' = MapInsert(output_heads, head, OutputHead_new(head, cosmic_output_manager))
    /\ NoSend
    /\ UNCHANGED <<output_manager, cosmic_output_manager, output_manager_serial, done_queued,
                   mode_data, srv_modes, n_done, mgr_finished>>
    /\ UNCHANGED exceptModel

\* A Done handler that takes the serial only when it sends ManagerDone at once.
ManagerDone_SerialWhenSent(serial) ==
    /\ output_manager
    /\ ~mgr_finished
    /\ n_done < MaxDone
    /\ n_done' = n_done + 1
    /\ IF cosmic_manager_sync_callback # None
       THEN /\ done_queued' = TRUE
            /\ NoSend
            /\ UNCHANGED output_manager_serial
       ELSE /\ ContextSend("ManagerDone")
            /\ output_manager_serial' = serial
            /\ UNCHANGED done_queued
    /\ UNCHANGED <<output_manager, cosmic_output_manager, output_heads, cosmic_manager_sync_callback>>
    /\ UNCHANGED <<heads_seen, mode_data, srv_modes, pending_syncs, n_syncs, mgr_finished>>
    /\ UNCHANGED exceptModel

\* A Done handler that queues ManagerDone whether or not a callback is stored.
ManagerDone_QueuedWithoutCallback(serial) ==
    /\ output_manager
    /\ ~mgr_finished
    /\ n_done < MaxDone
    /\ n_done' = n_done + 1
    /\ output_manager_serial' = serial
    /\ done_queued' = TRUE
    /\ NoSend
    /\ UNCHANGED <<output_manager, cosmic_output_manager, output_heads, cosmic_manager_sync_callback>>
    /\ UNCHANGED <<heads_seen, mode_data, srv_modes, pending_syncs, n_syncs, mgr_finished>>
    /\ UNCHANGED exceptModel

\* Dispatch<ZwlrOutputManagerV1>::event, Done { serial }
ManagerDone(serial) ==
    /\ output_manager
    /\ ~mgr_finished
    /\ n_done < MaxDone
    /\ n_done' = n_done + 1
    /\ output_manager_serial' = serial
    /\ IF cosmic_manager_sync_callback # None
       THEN /\ done_queued' = TRUE
            /\ NoSend
       ELSE /\ ContextSend("ManagerDone")
            /\ UNCHANGED done_queued
    /\ UNCHANGED <<output_manager, cosmic_output_manager, output_heads, cosmic_manager_sync_callback>>
    /\ UNCHANGED <<heads_seen, mode_data, srv_modes, pending_syncs, n_syncs, mgr_finished>>
    /\ UNCHANGED exceptModel

\* Dispatch<ZwlrOutputManagerV1>::event, Finished
ManagerFinished ==
    /\ output_manager
    /\ ~mgr_finished
    /\ mgr_finished' = TRUE
    /\ output_manager' = FALSE
    /\ output_manager_serial' = 0
    /\ ContextSend("ManagerFinished")
    /\ UNCHANGED <<cosmic_output_manager, output_heads, cosmic_manager_sync_callback, done_queued>>
    /\ UNCHANGED <<heads_seen, mode_data, srv_modes, pending_syncs, n_syncs, n_done>>
    /\ UNCHANGED exceptModel

\* A handler that lets any fired callback release the stored one.
CallbackMatches_AnyCallback(stored, proxy) == stored # None

\* Does the fired callback release the stored one: the comparison
\* cosmic_manager_sync_callback.as_ref() == Some(proxy)
CallbackMatches(stored, proxy) == stored = Some(proxy)

\* A callback handler that clears the queued ManagerDone without sending it.
CallbackDone_ForgetsQueued ==
    /\ pending_syncs # <<>>
    /\ pending_syncs' = Tail(pending_syncs)
    /\ IF CallbackMatches(cosmic_manager_sync_callback, Head(pending_syncs))
       THEN /\ cosmic_manager_sync_callback' = None
            /\ done_queued' = FALSE
       ELSE UNCHANGED <<cosmic_manager_sync_callback, done_queued>>
    /\ NoSend
    /\ UNCHANGED <<output_manager, cosmic_output_manager, output_manager_serial, output_heads>>
    /\ UNCHANGED <<heads_seen, mode_data, srv_modes, n_syncs, n_done, mgr_finished>>
    /\ UNCHANGED exceptModel

\* Dispatch<WlCallback>::event, Done: the server answers the oldest sync
CallbackDone ==
    /\ pending_syncs # <<>>
    /\ pending_syncs' = Tail(pending_syncs)
    /\ IF CallbackMatches(cosmic_manager_sync_callback, Head(pending_syncs))
       THEN /\ cosmic_manager_sync_callback' = None
            /\ IF done_queued
               THEN /\ ContextSend("ManagerDone")
                    /\ done_queued' = FALSE
               ELSE /\ NoSend
                    /\ UNCHANGED done_queued
       ELSE /\ NoSend
            /\ UNCHANGED <<cosmic_manager_sync_callback, done_queued>>
    /\ UNCHANGED <<output_manager, cosmic_output_manager, output_manager_serial, output_heads>>
    /\ UNCHANGED <<heads_seen, mode_data, srv_modes, n_syncs, n_done, mgr_finished>>
    /\ UNCHANGED exceptModel

\* A head or mode handler sends no Message and leaves the manager's state.
HandlerFrame ==
    /\ NoSend
    /\ UNCHANGED <<output_manager, cosmic_output_manager, output_manager_serial,
                   cosmic_manager_sync_callback, done_queued>>
    /\ UNCHANGED <<heads_seen, pending_syncs, n_syncs, n_done, mgr_finished>>
    /\ UNCHANGED exceptRelease

\* A head handler changes output_heads only.
HeadFrame ==
    /\ HandlerFrame
    /\ UNCHANGED proxy_requests

\* A request made on a proxy of the given kind, id and object version.
ProxyRequest(request, object, id, version) ==
    [request |-> request, object |-> object, id |-> id, version |-> version]

\* The version of the heads and modes: the one the manager was bound at.
ProxyVersion == bind_version.wlr

\* REQ_RELEASE_SINCE of zwlr_output_head_v1 and zwlr_output_mode_v1
ReleaseSince == 3

\* if proxy.version() >= 3 { proxy.release(); }
ReleaseIfSupported(object, id) ==
    proxy_requests' =
        IF ProxyVersion >= ReleaseSince
        THEN proxy_requests \cup {ProxyRequest("release", object, id, ProxyVersion)}
        ELSE proxy_requests

\* Dispatch<ZwlrOutputHeadV1>::event, Name { name }
HeadName(head, name) ==
    /\ head \in DOMAIN output_heads
    /\ output_heads' = [output_heads EXCEPT ![head].name = name]
    /\ UNCHANGED <<mode_data, srv_modes>>
    /\ HeadFrame

\* Dispatch<ZwlrOutputHeadV1>::event, Enabled { enabled }
HeadEnabled(head, enabled) ==
    /\ head \in DOMAIN output_heads
    /\ output_heads' = [output_heads EXCEPT ![head].enabled = (enabled # 0)]
    /\ UNCHANGED <<mode_data, srv_modes>>
    /\ HeadFrame

\* Dispatch<ZwlrOutputHeadV1>::event, Mode { mode }: a new mode object of this head
HeadMode(head, mode) ==
    /\ head \in DOMAIN output_heads
    /\ mode \notin DOMAIN mode_data
    /\ mode_data' = MapInsert(mode_data, mode, Some(head))
    /\ srv_modes' = srv_modes \cup {mode}
    /\ output_heads' = [output_heads EXCEPT
            ![head].modes = IndexInsert(@, mode, OutputMode_new(mode))]
    /\ HeadFrame

\* Dispatch<ZwlrOutputHeadV1>::event, CurrentMode { mode }: one of the head's live modes
HeadCurrentMode(head, mode) ==
    /\ head \in DOMAIN output_heads
    /\ mode \in srv_modes
    /\ mode_data[mode] = Some(head)
    /\ output_heads' = [output_heads EXCEPT ![head].current_mode = Some(mode)]
    /\ UNCHANGED <<mode_data, srv_modes>>
    /\ HeadFrame

\* Dispatch<ZwlrOutputHeadV1>::event, Finished
HeadFinished(head) ==
    /\ head \in DOMAIN output_heads
    /\ ReleaseIfSupported("head", head)
    /\ output_heads' = MapRemove(output_heads, head)
    /\ UNCHANGED <<mode_data, srv_modes>>
    /\ HandlerFrame

\* Dispatch<ZcosmicOutputHeadV1>::event, Mirroring { name }
CosmicMirroring(head, name) ==
    /\ head \in DOMAIN output_heads
    /\ output_heads[head].cosmic_head
    /\ output_heads' = [output_heads EXCEPT ![head].mirroring = name]
    /\ UNCHANGED <<mode_data, srv_modes>>
    /\ HeadFrame

\* What the mode handler does to the owning head's record for one event.
ModeEventOnHead(head, mode, event) ==
    LET modes == OrInsert(head.modes, mode)
        i == ModeIndex(modes, mode)
    IN  CASE event.kind = "Size" ->
                [head EXCEPT !.modes = [modes EXCEPT ![i].width = event.width,
                                                     ![i].height = event.height]]
          [] event.kind = "Refresh" ->
                [head EXCEPT !.modes = [modes EXCEPT ![i].refresh = event.refresh]]
          [] event.kind = "Preferred" ->
                [head EXCEPT !.modes = [modes EXCEPT ![i].preferred = TRUE]]
          [] event.kind = "Finished" ->
                [head EXCEPT !.modes = ShiftRemove(modes, mode)]

\* A mode handler that looks the mode up in every head, not in its owner.
ModeEvent_EveryHead(mode, event) ==
    /\ mode \in srv_modes
    /\ output_heads' = [head \in DOMAIN output_heads |->
                            ModeEventOnHead(output_heads[head], mode, event)]
    /\ srv_modes' = IF event.kind = "Finished" THEN srv_modes \ {mode} ELSE srv_modes
    /\ UNCHANGED <<mode_data, proxy_requests>>
    /\ HandlerFrame

\* Dispatch<ZwlrOutputModeV1>::event: returns early when the mode has no head
\* recorded or the head is no longer in output_heads.
ModeEvent(mode, event) ==
    /\ mode \in srv_modes
    /\ LET data == mode_data[mode]
       IN  IF data = None \/ Unwrap(data) \notin DOMAIN output_heads
           THEN UNCHANGED <<output_heads, proxy_requests>>
           ELSE /\ output_heads' = [output_heads EXCEPT
                      ![Unwrap(data)] = ModeEventOnHead(@, mode, event)]
                /\ IF event.kind = "Finished"
                   THEN ReleaseIfSupported("mode", mode)
                   ELSE UNCHANGED proxy_requests
    /\ srv_modes' = IF event.kind = "Finished" THEN srv_modes \ {mode} ELSE srv_modes
    /\ UNCHANGED mode_data
    /\ HandlerFrame

ModeSize(mode, size) ==
    ModeEvent(mode, [kind |-> "Size", width |-> size[1], height |-> size[2]])

ModeRefresh(mode, refresh) ==
    ModeEvent(mode, [kind |-> "Refresh", refresh |-> refresh])

ModeFinished(mode) ==
    ModeEvent(mode, [kind |-> "Finished"])

\* After Context::connect: the base manager is bound, the extension may be.
InitBound ==
    /\ ChanIdle
    /\ TxnIdle
    /\ FlowIdle
    /\ DispatchIdle
    /\ NoProxyRequests
    /\ NoFunction
    /\ AppIdle
    /\ output_manager = TRUE
    /\ cosmic_output_manager \in BOOLEAN
    /\ output_manager_serial = 0
    /\ output_heads = <<>>
    /\ cosmic_manager_sync_callback = None
    /\ done_queued = FALSE
    /\ heads_seen = {}
    /\ mode_data = <<>>
    /\ srv_modes = {}
    /\ pending_syncs = <<>>
    /\ n_syncs = 0
    /\ n_done = 0
    /\ mgr_finished = FALSE
    /\ RegAsBound

\* The handler runs on an event as soon as the server has sent it: the
\* connection's buffers stay out of the picture.
Dispatched(Handler) == Handler /\ UNCHANGED flowVars

\* The manager's events and the sync callbacks.
NextManager ==
    \/ \E head \in HeadIds : Dispatched(ManagerHead(head))
    \/ \E serial \in 1..MaxSerial : Dispatched(ManagerDone(serial))
    \/ Dispatched(ManagerFinished)
    \/ Dispatched(CallbackDone)
    \/ \E head \in HeadIds : Dispatched(HeadFinished(head))

SpecManager == InitBound /\ [][NextManager]_vars

\* The events that build and change heads and modes.
NextHeads ==
    \/ \E head \in HeadIds : Dispatched(ManagerHead(head))
    \/ \E head \in HeadIds, name \in Names : Dispatched(HeadName(head, name))
    \/ \E head \in HeadIds, enabled \in {0, 1} : Dispatched(HeadEnabled(head, enabled))
    \/ \E head \in HeadIds, mode \in ModeIds : Dispatched(HeadMode(head, mode))
    \/ \E head \in HeadIds, mode \in ModeIds : Dispatched(HeadCurrentMode(head, mode))
    \/ \E head \in HeadIds : Dispatched(HeadFinished(head))
    \/ \E mode \in ModeIds, size \in Sizes : Dispatched(ModeSize(mode, size))
    \/ \E mode \in ModeIds, refresh \in Refreshes : Dispatched(ModeRefresh(mode, refresh))
    \/ \E mode \in ModeIds : Dispatched(ModeFinished(mode))

SpecHeads == InitBound /\ [][NextHeads]_vars

\* C1: every head whose current_mode is set has that identifier as a key of
\* its own modes map.
C1_CurrentModeIsLive ==
    \A head \in DOMAIN output_heads :
        output_heads[head].current_mode # None =>
            Unwrap(output_heads[head].current_mode) \in ModeKeys(output_heads[head].modes)

\* C5: a ManagerDone message is put on the channel only by a step after which
\* no sync round-trip requested for an extension head is outstanding; when a
\* Done was deferred, that step is the firing of the most recently requested
\* callback.
C5_DoneWaitsForLatestSync ==
    [][(Len(queue') > Len(queue) /\ queue'[Len(queue')] = "ManagerDone") =>
            /\ pending_syncs' = <<>>
            /\ done_queued =>
                  /\ pending_syncs = <<n_syncs>>
                  /\ ~done_queued']_vars

\* Two Done events were handled while round-trips were outstanding, a later
\* Head event superseded the first callback, and the one deferred ManagerDone
\* was released when the last callback fired.
C5_Witness ==
    /\ n_done = 2
    /\ n_syncs >= 2
    /\ pending_syncs = <<>>
    /\ cosmic_manager_sync_callback = None
    /\ ~done_queued
    /\ queue = <<"ManagerDone">>

(***************************************************************************)
(* Configuration transaction                                               *)
(***************************************************************************)

\* How many staging calls the caller makes on one transaction.
MaxCalls == 2

\* The version of the extension that introduced set_adaptive_sync_ext.
REQ_SET_ADAPTIVE_SYNC_EXT_SINCE == 2

\* The tolerance constant of the refresh match.
RefreshTolerance == 501

\* HeadConfiguration.refresh is a float in Hz; the model carries it in tenths
\* of a millihertz, so that the cast (refresh * 1000.0) as i32 has a
\* fractional part to truncate.
TenthsPerMilli == 10

\* (refresh * 1000.0) as i32
RefreshMilli(refresh) == refresh \div TenthsPerMilli

\* (mode.refresh - refresh).abs()
Abs(x) == IF x < 0 THEN -x ELSE x

SeqMin(indexes) == CHOOSE i \in indexes : \A j \in indexes : i <= j

\* Iterator::find on a sequence: the first element the test accepts.
FindFirst(seq, Test(_)) ==
    LET hits == {i \in DOMAIN seq : Test(seq[i])}
    IN  IF hits = {} THEN None ELSE Some(seq[SeqMin(hits)])

\* Vec<String>::contains / iter().any(|o| o == output)
Contains(seq, x) == \E i \in DOMAIN seq : seq[i] = x

\* HeadConfiguration::default()
HeadConfiguration_default ==
    [size |-> None, refresh |-> None, adaptive_sync |-> None,
     pos |-> None, scale |-> None, transform |-> None]

\* One protocol request: the request name, the head it is about, its arguments.
Req(op, head, arg) == [op |-> op, head |-> head, arg |-> arg]

\* A candidate filter that forgets the requested size.
mode_iter_AnySize(head, args) ==
    IF args.size # None
    THEN head.modes
    ELSE SelectSeq(head.modes, LAMBDA mode :
            head.current_mode # None /\ mode.wlr_mode = Unwrap(head.current_mode))

\* The closure mode_iter of send_mode_to_config_head: the candidate modes,
\* in the order of the head's mode map.
mode_iter(head, args) ==
    SelectSeq(head.modes, LAMBDA mode :
        IF args.size # None
        THEN mode.width = Unwrap(args.size)[1] /\ mode.height = Unwrap(args.size)[2]
        ELSE head.current_mode # None /\ mode.wlr_mode = Unwrap(head.current_mode))

\* A tolerance filter that includes both ends: min <= mode.refresh <= max.
InTolerance_Inclusive(mode_refresh, refresh) ==
    /\ refresh - RefreshTolerance <= mode_refresh
    /\ refresh + RefreshTolerance >= mode_refresh

\* The tolerance filter: min < mode.refresh && max > mode.refresh
InTolerance(mode_refresh, refresh) ==
    /\ refresh - RefreshTolerance < mode_refresh
    /\ refresh + RefreshTolerance > mode_refresh

\* Iterator::min_by_key(|mode| (mode.refresh - refresh).abs()): the first of
\* the elements with the least key.
MinByRefresh(seq, refresh) ==
    LET best == {i \in DOMAIN seq :
                    \A j \in DOMAIN seq :
                        Abs(seq[i].refresh - refresh) <= Abs(seq[j].refresh - refresh)}
    IN  IF seq = <<>> THEN None ELSE Some(seq[SeqMin(best)])

\* The mode chosen by send_mode_to_config_head, or None (ModeNotFound).
SelectMode(head, args) ==
    LET candidates == mode_iter(head, args)
    IN  IF args.refresh # None
        THEN LET refresh == RefreshMilli(Unwrap(args.refresh))
                 exact == FindFirst(candidates, LAMBDA mode : mode.refresh = refresh)
             IN  IF exact # None
                 THEN exact
                 ELSE MinByRefresh(
                        SelectSeq(candidates, LAMBDA mode : InTolerance(mode.refresh, refresh)),
                        refresh)
        ELSE IF candidates = <<>> THEN None ELSE Some(candidates[1])

\* Can the tri-state adaptive-sync request be sent on the extension object.
HasAdaptiveSyncExt(cosmic_head_config) ==
    cosmic_head_config /\ CosmicBindVersion >= REQ_SET_ADAPTIVE_SYNC_EXT_SINCE

\* send_mode_to_config_head: the requests it emits, in order, and its result.
send_mode_to_config_head(head, cosmic_head_config, args) ==
    LET id == head.wlr_head
        scale == IF args.scale = None THEN <<>>
                 ELSE IF cosmic_head_config
                      THEN <<Req("set_scale_1000", id, args.scale)>>
                      ELSE <<Req("set_scale", id, args.scale)>>
        transform == IF args.transform = None THEN <<>>
                     ELSE <<Req("set_transform", id, args.transform)>>
        pos == IF args.pos = None THEN <<>>
               ELSE <<Req("set_position", id, Unwrap(args.pos))>>
        before == scale \o transform \o pos
        vrr_fails == /\ args.adaptive_sync # None
                     /\ ~HasAdaptiveSyncExt(cosmic_head_config)
                     /\ Unwrap(args.adaptive_sync) = "Automatic"
        vrr == IF args.adaptive_sync = None THEN <<>>
               ELSE IF HasAdaptiveSyncExt(cosmic_head_config)
                    THEN <<Req("set_adaptive_sync_ext", id, args.adaptive_sync)>>
                    ELSE <<Req("set_adaptive_sync", id,
                               IF Unwrap(args.adaptive_sync) = "Always"
                               THEN <<"Enabled">> ELSE <<"Disabled">>)>>
        mode == SelectMode(head, args)
    IN  IF vrr_fails
        THEN [requests |-> before, result |-> "UnsupportedVrrState"]
        ELSE IF mode = None
             THEN [requests |-> before \o vrr, result |-> "ModeNotFound"]
             ELSE [requests |-> before \o vrr \o
                                <<Req("set_mode", id, <<Unwrap(mode).wlr_mode>>)>>,
                   result |-> "Ok"]

\* A lookup in the live object model instead of the snapshot.
FindHead_Live(known, output) ==
    LET live == {id \in DOMAIN output_heads : output_heads[id].name = output}
    IN  IF live = {} THEN None ELSE Some(output_heads[SeqMin(live)])

\* known_heads.iter().find(|head| head.name == output)
FindHead(known, output) ==
    LET named == {i \in DOMAIN known : known[i].name = output}
    IN  IF named = {} THEN None ELSE Some(known[SeqMin(named)])

\* The Configuration as a value: the fields the staging calls read and write.
Conf == [known_heads |-> known_heads, configured_heads |-> configured_heads,
         requests |-> requests, cosmic_obj |-> cosmic_obj]

Returned(c, result) == [c |-> c, result |-> result]

\* self.configured_heads.push(output.to_string())
PushConfigured(c, output) == [c EXCEPT !.configured_heads = Append(@, output)]

Emit(c, reqs) == [c EXCEPT !.requests = @ \o reqs]

\* extension.get_configuration_head(&head_config, ..), when the extension is bound
GetConfigurationHead(c, id) ==
    IF c.cosmic_obj THEN <<Req("get_configuration_head", id, <<>>)>> ELSE <<>>

\* Configuration::disable_head
disable_head(c, output) ==
    IF Contains(c.configured_heads, output)
    THEN Returned(c, "OutputAlreadyConfigured")
    ELSE LET c1 == PushConfigured(c, output)
             head == FindHead(c.known_heads, output)
         IN  IF head = None
             THEN Returned(c1, "UnknownOutput")
             ELSE Returned(Emit(c1, <<Req("disable_head", Unwrap(head).wlr_head, <<>>)>>), "Ok")

\* An enable_head without the test for an earlier staging of the name.
enable_head_Restage(c, output, mode) ==
    LET c1 == PushConfigured(c, output)
        head == FindHead(c.known_heads, output)
    IN  IF head = None
        THEN Returned(c1, "UnknownOutput")
        ELSE Returned(Emit(c1, <<Req("enable_head", Unwrap(head).wlr_head, <<>>)>>), "Ok")

\* Configuration::enable_head
enable_head(c, output, mode) ==
    IF Contains(c.configured_heads, output)
    THEN Returned(c, "OutputAlreadyConfigured")
    ELSE LET c1 == PushConfigured(c, output)
             head == FindHead(c.known_heads, output)
         IN  IF head = None
             THEN Returned(c1, "UnknownOutput")
             ELSE LET id == Unwrap(head).wlr_head
                      c2 == Emit(c1, <<Req("enable_head", id, <<>>)>>
                                       \o GetConfigurationHead(c1, id))
                  IN  IF mode = None
                      THEN Returned(c2, "Ok")
                      ELSE LET sent == send_mode_to_config_head(
                                          Unwrap(head), c.cosmic_obj, Unwrap(mode))
                           IN  Returned(Emit(c2, sent.requests), sent.result)

\* Configuration::mirror_head
mirror_head(c, output, mirrored, mode) ==
    IF ~c.cosmic_obj
    THEN Returned(c, "NoCosmicExtension")
    ELSE IF Contains(c.configured_heads, output)
    THEN Returned(c, "OutputAlreadyConfigured")
    ELSE IF output = mirrored
    THEN Returned(c, "MirroringItself")
    ELSE IF mode # None /\ Unwrap(mode).pos # None
    THEN Returned(c, "PositionForMirroredOutput")
    ELSE LET c1 == PushConfigured(c, output)
             head == FindHead(c.known_heads, output)
             source == FindHead(c.known_heads, mirrored)
         IN  IF head = None \/ source = None
             THEN Returned(c1, "UnknownOutput")
             ELSE LET id == Unwrap(head).wlr_head
                      c2 == Emit(c1, <<Req("mirror_head", id, <<Unwrap(source).wlr_head>>)>>
                                       \o GetConfigurationHead(c1, id))
                  IN  IF mode = None
                      THEN Returned(c2, "Ok")
                      ELSE LET sent == send_mode_to_config_head(
                                          Unwrap(head), c.cosmic_obj, Unwrap(mode))
                           IN  Returned(Emit(c2, sent.requests), sent.result)

\* The staging call configure_remaining_heads makes for one head of the snapshot.
StageAsKnown(c, output) ==
    IF output.enabled
    THEN IF output.mirroring # None
         THEN mirror_head(c, output.name, Unwrap(output.mirroring), None)
         ELSE enable_head(c, output.name, None)
    ELSE disable_head(c, output.name)

\* The loop of configure_remaining_heads from the i-th head of the snapshot
\* on; `configured` is the clone of configured_heads taken before the loop.
\* A staging call that returns an error makes unwrap() panic: the loop stops.
RECURSIVE ConfigureFrom(_, _, _)
ConfigureFrom(c, i, configured) ==
    IF i > Len(c.known_heads)
    THEN Returned(c, "Ok")
    ELSE IF Contains(configured, c.known_heads[i].name)
         THEN ConfigureFrom(c, i + 1, configured)
         ELSE LET staged == StageAsKnown(c, c.known_heads[i])
              IN  IF staged.result # "Ok"
                  THEN staged
                  ELSE ConfigureFrom(staged.c, i + 1, configured)

\* Configuration::configure_remaining_heads
configure_remaining_heads(c) == ConfigureFrom(c, 1, c.configured_heads)

\* Context::create_output_config: the snapshot is output_heads.values() in
\* the HashMap's (arbitrary) iteration order. unwrap() on an unbound manager
\* panics.
CreateOutputConfig ==
    /\ txn = "none"
    /\ IF output_manager
       THEN /\ txn' = "open"
            /\ \E order \in [1..Cardinality(DOMAIN output_heads) -> DOMAIN output_heads] :
                /\ \A i, j \in DOMAIN order : order[i] = order[j] => i = j
                /\ known_heads' = [i \in DOMAIN order |-> output_heads[order[i]]]
            /\ cosmic_obj' = cosmic_output_manager
            /\ txn_serial' = output_manager_serial
       ELSE /\ txn' = "panicked"
            /\ UNCHANGED <<known_heads, cosmic_obj, txn_serial>>
    /\ UNCHANGED <<configured_heads, requests, last_call, n_calls>>
    /\ UNCHANGED exceptTxn

\* The caller's staging call returned `returned`.
Staged(op, output, mirrored, mode, returned) ==
    /\ txn = "open"
    /\ n_calls < MaxCalls
    /\ n_calls' = n_calls + 1
    /\ configured_heads' = returned.c.configured_heads
    /\ requests' = returned.c.requests
    /\ last_call' = [op |-> op, output |-> output, mirrored |-> mirrored, mode |-> mode,
                     result |-> returned.result, n_before |-> Len(requests)]
    /\ UNCHANGED <<txn, known_heads, cosmic_obj, txn_serial>>
    /\ UNCHANGED exceptTxn

DisableHead(output) ==
    Staged("disable_head", output, "", None, disable_head(Conf, output))

EnableHead(output, mode) ==
    Staged("enable_head", output, "", mode, enable_head(Conf, output, mode))

MirrorHead(output, mirrored, mode) ==
    Staged("mirror_head", output, mirrored, mode, mirror_head(Conf, output, mirrored, mode))

\* Configuration::test and Configuration::apply: stage the remaining heads,
\* then send the request; a panic in the staging leaves the request unsent.
Finalize(op, done) ==
    /\ txn = "open"
    /\ LET returned == configure_remaining_heads(Conf)
       IN  /\ configured_heads' = returned.c.configured_heads
           /\ IF returned.result = "Ok"
              THEN /\ requests' = Append(returned.c.requests, Req(op, 0, <<>>))
                   /\ txn' = done
              ELSE /\ requests' = returned.c.requests
                   /\ txn' = "panicked"
           /\ last_call' = [op |-> op, output |-> "", mirrored |-> "", mode |-> None,
                            result |-> returned.result, n_before |-> Len(requests)]
    /\ UNCHANGED <<known_heads, cosmic_obj, txn_serial, n_calls>>
    /\ UNCHANGED exceptTxn

Test == Finalize("test", "tested")

Apply == Finalize("apply", "applied")

\* Configuration::cancel
Cancel ==
    /\ txn = "open"
    /\ requests' = Append(requests, Req("destroy", 0, <<>>))
    /\ txn' = "cancelled"
    /\ last_call' = [op |-> "cancel", output |-> "", mirrored |-> "", mode |-> None,
                     result |-> "Ok", n_before |-> Len(requests)]
    /\ UNCHANGED <<known_heads, configured_heads, cosmic_obj, txn_serial, n_calls>>
    /\ UNCHANGED exceptTxn

\* The HeadConfiguration values the caller stages with: nothing set; a
\* position; a size no head has, with a scale and a two-state adaptive sync;
\* the automatic adaptive sync with a transform.
StagingArgs ==
    { HeadConfiguration_default,
      [HeadConfiguration_default EXCEPT !.pos = Some(<<0, 0>>)],
      [HeadConfiguration_default EXCEPT !.size = Some(<<2, 1>>), !.scale = Some(1500),
                                        !.adaptive_sync = Some("Always")],
      [HeadConfiguration_default EXCEPT !.adaptive_sync = Some("Automatic"),
                                        !.transform = Some("Rotate90")] }

StagingModes == {None} \cup {Some(args) : args \in StagingArgs}

\* The single mode of head `id` in the object models the transaction starts from.
OnlyMode(id) ==
    [wlr_mode |-> id, width |-> 1, height |-> 1, refresh |-> 60000, preferred |-> FALSE]

\* The states a head can be in after the events of the object model: disabled,
\* enabled, or (with the extension) enabled and mirroring a named head.
HeadStates(cosmic) ==
    {[enabled |-> FALSE, mirroring |-> None], [enabled |-> TRUE, mirroring |-> None]}
    \cup (IF cosmic THEN {[enabled |-> TRUE, mirroring |-> Some(name)] : name \in Names}
          ELSE {})

BuiltHead(id, cosmic, name, state, has_mode) ==
    [wlr_head |-> id, cosmic_head |-> cosmic, name |-> name,
     enabled |-> state.enabled, mirroring |-> state.mirroring,
     current_mode |-> IF has_mode THEN Some(id) ELSE None,
     modes |-> IF has_mode THEN <<OnlyMode(id)>> ELSE <<>>]

\* Object models of 1..MaxHeads heads, names not necessarily unique. Heads
\* are interchangeable, so the first is the one named "A" that has a mode.
BuiltModels(cosmic) ==
    UNION { { [id \in 1..n |-> BuiltHead(id, cosmic, pick[id][1], pick[id][2], pick[id][3])] :
                pick \in { p \in [1..n -> Names \X HeadStates(cosmic) \X BOOLEAN] :
                              p[1][1] = "A" /\ p[1][3] } } :
            n \in 1..MaxHeads }

\* The caller has seen ManagerDone and is about to open a transaction.
InitTxn ==
    /\ ChanIdle
    /\ TxnIdle
    /\ FlowIdle
    /\ DispatchIdle
    /\ NoProxyRequests
    /\ NoFunction
    /\ AppIdle
    /\ output_manager = TRUE
    /\ cosmic_output_manager \in BOOLEAN
    /\ output_manager_serial = 1
    /\ output_heads \in BuiltModels(cosmic_output_manager)
    /\ cosmic_manager_sync_callback = None
    /\ done_queued = FALSE
    /\ heads_seen = DOMAIN output_heads
    /\ srv_modes = {id \in DOMAIN output_heads : output_heads[id].modes # <<>>}
    /\ mode_data = [id \in srv_modes |-> Some(id)]
    /\ pending_syncs = <<>>
    /\ n_syncs = IF cosmic_output_manager THEN Cardinality(DOMAIN output_heads) ELSE 0
    /\ n_done = 1
    /\ mgr_finished = FALSE
    /\ RegAsBound

NextTxn ==
    \/ CreateOutputConfig
    \/ \E output \in Names : DisableHead(output)
    \/ \E output \in Names, mode \in StagingModes : EnableHead(output, mode)
    \/ \E output \in Names, mirrored \in Names, mode \in StagingModes :
            MirrorHead(output, mirrored, mode)
    \/ Test
    \/ Apply
    \/ Cancel

SpecTxn == InitTxn /\ [][NextTxn]_vars

StagingOps == {"disable_head", "enable_head", "mirror_head"}
SettingOps == {"set_scale", "set_scale_1000", "set_transform", "set_position",
               "set_adaptive_sync", "set_adaptive_sync_ext", "set_mode"}

\* The staging requests emitted for the head object `id`.
StagingsOf(id) ==
    {k \in DOMAIN requests : requests[k].op \in StagingOps /\ requests[k].head = id}

\* The staging request that reproduces the recorded state of a snapshot head.
ReproducesState(request, head) ==
    IF ~head.enabled
    THEN request.op = "disable_head"
    ELSE IF head.mirroring = None
    THEN request.op = "enable_head"
    ELSE /\ request.op = "mirror_head"
         /\ \E i \in DOMAIN known_heads :
                /\ known_heads[i].name = Unwrap(head.mirroring)
                /\ request.arg = <<known_heads[i].wlr_head>>

\* C2: once test or apply has been called, every head of the snapshot has
\* exactly one staging request, and a head staged by the call itself is staged
\* as its recorded state says (disabled, mirroring its source, or enabled).
C2_EveryHeadStagedOnce ==
    last_call.op \in {"test", "apply"} =>
        \A i \in DOMAIN known_heads :
            LET mine == StagingsOf(known_heads[i].wlr_head)
            IN  /\ Cardinality(mine) = 1
                /\ \A k \in mine :
                       k > last_call.n_before => ReproducesState(requests[k], known_heads[i])

\* C3: a staging call that returned an error has emitted no request.
C3_ErrorEmitsNothing ==
    (last_call.op \in StagingOps /\ last_call.result # "Ok") =>
        Len(requests) = last_call.n_before

\* The step is a staging call for a name that is already in configured_heads.
RestagingStep ==
    /\ n_calls' = n_calls + 1
    /\ \E i \in DOMAIN configured_heads : configured_heads[i] = last_call'.output

MaxSelModes == 2

\* Refresh rates of the head's modes, in mHz: around 60 Hz, at and next to
\* the edges of the tolerance.
SelRefreshes == {59499, 59500, 59940, 60000, 60024, 60500, 60501}

\* The head's modes: any sequence (the order of the mode map) of up to
\* MaxSelModes modes; the i-th mode object has id i.
SelModes ==
    UNION { { [i \in 1..n |-> [wlr_mode |-> i, width |-> pick[i][1][1],
                               height |-> pick[i][1][2], refresh |-> pick[i][2],
                               preferred |-> FALSE]] :
                pick \in [1..n -> Sizes \X SelRefreshes] } :
            n \in 0..MaxSelModes }

\* The requested refresh rates, in tenths of a mHz: 60 Hz, 60.0005 Hz (the
\* cast truncates it to 60000), 59.95 Hz, 59.999 Hz and 75 Hz.
SelRequests == {600000, 600005, 599500, 599990, 750000}

\* The HeadConfiguration values of the selection: a size or none, a refresh
\* rate or none.
SelArgs ==
    { [HeadConfiguration_default EXCEPT !.size = size, !.refresh = refresh] :
        size \in {None, Some(<<1, 1>>)},
        refresh \in {None} \cup {Some(r) : r \in SelRequests} }

\* One enabled head "A" with the drawn modes and current mode.
InitSelect ==
    /\ ChanIdle
    /\ TxnIdle
    /\ FlowIdle
    /\ DispatchIdle
    /\ NoProxyRequests
    /\ NoFunction
    /\ AppIdle
    /\ output_manager = TRUE
    /\ cosmic_output_manager = FALSE
    /\ output_manager_serial = 1
    /\ \E modes \in SelModes :
         \E current \in {None} \cup {Some(i) : i \in DOMAIN modes} :
            output_heads = (1 :> [wlr_head |-> 1, cosmic_head |-> FALSE, name |-> "A",
                                  enabled |-> TRUE, mirroring |-> None,
                                  current_mode |-> current, modes |-> modes])
    /\ cosmic_manager_sync_callback = None
    /\ done_queued = FALSE
    /\ heads_seen = {1}
    /\ srv_modes = DOMAIN output_heads[1].modes
    /\ mode_data = [id \in srv_modes |-> Some(1)]
    /\ pending_syncs = <<>>
    /\ n_syncs = 0
    /\ n_done = 1
    /\ mgr_finished = FALSE
    /\ RegAsBound

\* enable_head("A", Some(args)) as the first call of the transaction.
EnableSelected(args) ==
    /\ n_calls = 0
    /\ EnableHead("A", Some(args))

NextSelect ==
    \/ CreateOutputConfig
    \/ \E args \in SelArgs : EnableSelected(args)

SpecSelect == InitSelect /\ [][NextSelect]_vars

\* The last call staged head "A" with a requested refresh rate.
SelCase ==
    /\ last_call.op = "enable_head"
    /\ last_call.mode # None
    /\ Unwrap(last_call.mode).refresh # None

\* The requested rate in mHz, the candidate modes and the selected mode ids.
SelRate == RefreshMilli(Unwrap(Unwrap(last_call.mode).refresh))
SelCandidates ==
    LET C == mode_iter(known_heads[1], Unwrap(last_call.mode))
    IN  {C[i] : i \in DOMAIN C}
SelChosen ==
    {requests[k].arg[1] : k \in {k \in DOMAIN requests : requests[k].op = "set_mode"}}

\* An exact match is selected if there is one; otherwise a candidate of the
\* least deviation among those that deviate by at most `limit`; with none of
\* those the call returns ModeNotFound and selects nothing.
SelectionWithin(limit) ==
    SelCase =>
        LET exact == {m \in SelCandidates : m.refresh = SelRate}
            near == {m \in SelCandidates : Abs(m.refresh - SelRate) <= limit}
        IN  IF exact # {}
            THEN /\ last_call.result = "Ok"
                 /\ \E m \in exact : SelChosen = {m.wlr_mode}
            ELSE IF near # {}
            THEN /\ last_call.result = "Ok"
                 /\ \E m \in near :
                       /\ SelChosen = {m.wlr_mode}
                       /\ \A o \in near :
                             Abs(m.refresh - SelRate) <= Abs(o.refresh - SelRate)
            ELSE /\ last_call.result = "ModeNotFound"
                 /\ SelChosen = {}

\* C10 as stated: with a requested refresh rate r, an exact match is selected;
\* otherwise the candidate nearest to r among those with |refresh - r| <= 501;
\* otherwise ModeNotFound.
C10_NearestWithin501 == SelectionWithin(RefreshTolerance)

\* C10 as amended: the same with the tolerance |refresh - r| < 501, that is,
\* at most 500 mHz.
C10_NearestBelow501 == SelectionWithin(RefreshTolerance - 1)

\* No candidate matches exactly, two are within the tolerance at different
\* deviations, the nearer of them is not the first in order and was selected.
C10_Witness ==
    /\ SelCase
    /\ last_call.result = "Ok"
    /\ \A m \in SelCandidates : m.refresh # SelRate
    /\ \E m, o \in SelCandidates :
          /\ SelChosen = {m.wlr_mode}
          /\ o.wlr_mode < m.wlr_mode
          /\ Abs(m.refresh - SelRate) < Abs(o.refresh - SelRate)
          /\ Abs(o.refresh - SelRate) = RefreshTolerance - 1

(***************************************************************************)
(* A transaction while dispatch keeps changing the live object model       *)
(***************************************************************************)

\* The HeadConfiguration values staged here: none, or the size of OnlyMode.
SnapModes == {None, Some([HeadConfiguration_default EXCEPT !.size = Some(<<1, 1>>)])}

\* A handler that dispatch runs while the caller holds an open transaction.
WhileOpen(Handler) == txn = "open" /\ Dispatched(Handler)

NextSnap ==
    \/ CreateOutputConfig
    \/ \E head \in HeadIds : WhileOpen(ManagerHead(head))
    \/ \E head \in HeadIds : WhileOpen(HeadFinished(head))
    \/ \E head \in HeadIds, name \in Names : WhileOpen(HeadName(head, name))
    \/ \E head \in HeadIds, enabled \in {0, 1} : WhileOpen(HeadEnabled(head, enabled))
    \/ \E mode \in ModeIds : WhileOpen(ModeFinished(mode))
    \/ \E output \in Names : DisableHead(output)
    \/ \E output \in Names, mode \in SnapModes : EnableHead(output, mode)
    \/ \E output \in Names, mirrored \in Names : MirrorHead(output, mirrored, None)
    \/ Test
    \/ Apply

\* The object models the transaction starts from here: head 1 is named "A",
\* the others "B", and every head has its mode.
InitSnap ==
    /\ InitTxn
    /\ \A id \in DOMAIN output_heads :
          /\ output_heads[id].name = (IF id = 1 THEN "A" ELSE "B")
          /\ output_heads[id].modes # <<>>

SpecSnap == InitSnap /\ [][NextSnap]_vars

\* The first head of the snapshot with the given name, if any.
SnapshotHeads(name) == {i \in DOMAIN known_heads : known_heads[i].name = name}
SnapshotHead(name) == known_heads[SeqMin(SnapshotHeads(name))]

\* The requests the step has emitted.
EmittedNow == {k \in DOMAIN requests' : k > Len(requests)}

\* An explicit staging call has resolved its names, the head object and the
\* mode against the snapshot.
StagedFromSnapshot ==
    LET call == last_call'
        first == requests'[Len(requests) + 1]
    IN  /\ call.result = "Ok" =>
              /\ SnapshotHeads(call.output) # {}
              /\ first.op = call.op
              /\ first.head = SnapshotHead(call.output).wlr_head
              /\ call.op = "mirror_head" =>
                    /\ SnapshotHeads(call.mirrored) # {}
                    /\ first.arg = <<SnapshotHead(call.mirrored).wlr_head>>
              /\ \A k \in EmittedNow :
                    requests'[k].op = "set_mode" =>
                        requests'[k].arg[1] \in ModeKeys(SnapshotHead(call.output).modes)
        /\ call.result = "UnknownOutput" =>
              \/ SnapshotHeads(call.output) = {}
              \/ call.op = "mirror_head" /\ SnapshotHeads(call.mirrored) = {}
        /\ call.result = "ModeNotFound" =>
              /\ SnapshotHeads(call.output) # {}
              /\ SnapshotHead(call.output).modes = <<>>

\* The automatic staging of test/apply has staged heads of the snapshot, each
\* as the snapshot records it.
AutoStagedFromSnapshot ==
    \A k \in EmittedNow :
        requests'[k].op \in StagingOps =>
            \E i \in DOMAIN known_heads :
                /\ known_heads[i].wlr_head = requests'[k].head
                /\ ~Contains(configured_heads, known_heads[i].name)
                /\ ReproducesState(requests'[k], known_heads[i])

\* C9: after a transaction is opened, a change that dispatch makes to the live
\* object model leaves the snapshot unchanged, and every later staging call
\* and the automatic staging at test/apply resolve names, modes and state
\* against the snapshot.
C9_StagingReadsSnapshot ==
    [][txn = "open" =>
          /\ output_heads' # output_heads => known_heads' = known_heads
          /\ n_calls' = n_calls + 1 => StagedFromSnapshot
          /\ last_call'.op \in {"test", "apply"} => AutoStagedFromSnapshot]_vars

\* A head was staged with a mode of the snapshot after the live model had
\* lost every head of that name.
C9_Witness ==
    /\ last_call.op = "enable_head"
    /\ last_call.result = "Ok"
    /\ \E k \in DOMAIN requests : requests[k].op = "set_mode"
    /\ \A head \in DOMAIN output_heads : output_heads[head].name # last_call.output
    /\ \E i \in DOMAIN known_heads : known_heads[i].name = last_call.output

(***************************************************************************)
(* A finalized transaction: the server's answer, async_dispatch and the    *)
(* caller's receive_config_messages                                        *)
(***************************************************************************)

\* The events of zwlr_output_configuration_v1 and the Message each one sends.
TerminalEvents == {"Succeeded", "Failed", "Cancelled"}
MessageOf ==
    [Succeeded |-> "ConfigurationSucceeded", Failed |-> "ConfigurationFailed",
     Cancelled |-> "ConfigurationCancelled"]
TerminalMessages == {MessageOf[kind] : kind \in TerminalEvents}

\* Dispatch<ZwlrOutputConfigurationV1>::event: the message is sent; no request
\* is made on the proxy.
ConfigurationEvent(kind) ==
    /\ ContextSend(MessageOf[kind])
    /\ UNCHANGED <<ctxVars, srvVars>>
    /\ UNCHANGED exceptModel

\* What an applied configuration changes on the server: the enabled state of
\* each staged head, then the manager's done with the next serial.
ConsequencesOf(reqs, serial) ==
    LET staged == SelectSeq(reqs, LAMBDA request : request.op \in StagingOps)
    IN  [i \in DOMAIN staged |->
            [kind |-> "Enabled", head |-> staged[i].head,
             enabled |-> IF staged[i].op = "disable_head" THEN 0 ELSE 1]]
        \o <<[kind |-> "Done", serial |-> serial + 1]>>

\* The compositor handles the test/apply request, which the client has
\* flushed on its way into the read: it decides, and queues the configuration
\* object's event and, for an applied configuration, the changes; the order
\* of the two is the compositor's.
ServerProcess ==
    /\ txn \in {"tested", "applied"}
    /\ cli_pc = "dispatching"
    /\ outcome = "none"
    /\ \E verdict \in TerminalEvents :
          LET terminal == <<[kind |-> verdict]>>
              changes == IF verdict = "Succeeded" /\ txn = "applied"
                         THEN ConsequencesOf(requests, txn_serial) ELSE <<>>
          IN  /\ outcome' = verdict
              /\ srv_script' \in {srv_script \o terminal \o changes,
                                  srv_script \o changes \o terminal}
    /\ UNCHANGED <<wire, evq, cli_pc>>
    /\ UNCHANGED <<chanVars, ctxVars, srvVars, txnVars, regVars, dspVars, objVars, pureVars, cliVars>>

\* The compositor writes its next event to the socket.
ServerEmit ==
    /\ srv_script # <<>>
    /\ wire' = Append(wire, Head(srv_script))
    /\ srv_script' = Tail(srv_script)
    /\ UNCHANGED <<evq, cli_pc, outcome>>
    /\ UNCHANGED <<chanVars, ctxVars, srvVars, txnVars, regVars, dspVars, objVars, pureVars, cliVars>>

\* App::receive_config_messages is called after the transaction was finalized.
ReceiveConfigMessages ==
    /\ cli_pc = "caller"
    /\ txn \in {"tested", "applied"}
    /\ cli_pc' = "receiving"
    /\ UNCHANGED <<wire, evq, srv_script, outcome>>
    /\ UNCHANGED <<chanVars, ctxVars, srvVars, txnVars, regVars, dspVars, objVars, pureVars, cliVars>>

\* The loop of receive_config_messages: try_recv pops the front message;
\* config_message ends the loop on a terminal message; on an empty queue the
\* caller goes into dispatch.
TryRecv ==
    /\ cli_pc = "receiving"
    /\ IF queue = <<>>
       THEN /\ cli_pc' = "dispatching"
            /\ UNCHANGED <<queue, received>>
       ELSE /\ queue' = Tail(queue)
            /\ received' = Append(received, Head(queue))
            /\ cli_pc' = IF Head(queue) \in TerminalMessages THEN "returned" ELSE "receiving"
    /\ UNCHANGED <<closed, permit, tx_pc, rx_pc, rx_result, n_sent>>
    /\ UNCHANGED <<wire, evq, srv_script, outcome>>
    /\ UNCHANGED <<ctxVars, srvVars, txnVars, regVars, dspVars, objVars, pureVars, cliVars>>

\* async_dispatch with nothing pending: wait until the socket is readable and
\* read what is there into the event queue.
ReadSocket ==
    /\ cli_pc = "dispatching"
    /\ evq = <<>>
    /\ wire # <<>>
    /\ evq' = wire
    /\ wire' = <<>>
    /\ UNCHANGED <<cli_pc, srv_script, outcome>>
    /\ UNCHANGED <<chanVars, ctxVars, srvVars, txnVars, regVars, dspVars, objVars, pureVars, cliVars>>

\* EventQueue::dispatch_pending: the handler of the next queued event runs;
\* after the last one dispatch returns to the caller.
DispatchPending ==
    /\ cli_pc = "dispatching"
    /\ evq # <<>>
    /\ LET event == Head(evq)
       IN  CASE event.kind \in TerminalEvents -> ConfigurationEvent(event.kind)
             [] event.kind = "Enabled" -> HeadEnabled(event.head, event.enabled)
             [] event.kind = "Done" -> ManagerDone(event.serial)
    /\ evq' = Tail(evq)
    /\ cli_pc' = IF Tail(evq) = <<>> THEN "receiving" ELSE "dispatching"
    /\ UNCHANGED <<wire, srv_script, outcome>>

NextFlow ==
    \/ CreateOutputConfig
    \/ \E output \in Names : DisableHead(output)
    \/ \E output \in Names : EnableHead(output, None)
    \/ Test
    \/ Apply
    \/ ReceiveConfigMessages
    \/ TryRecv
    \/ ReadSocket
    \/ DispatchPending
    \/ ServerProcess
    \/ ServerEmit

SpecFlow == InitSnap /\ [][NextFlow]_vars

\* C7: when the caller receives the terminal Message of a finalized
\* transaction, every event the server has emitted as a consequence of the
\* transaction, the manager's done with the new serial included, has been
\* applied to the object model: none is unread on the socket or waiting in
\* the event queue.
C7_TerminalAfterUpdates ==
    [][(cli_pc # "returned" /\ cli_pc' = "returned") =>
          /\ wire' = <<>>
          /\ evq' = <<>>]_vars

\* The step handles the configuration object's terminal event.
TerminalHandled ==
    /\ cli_pc = "dispatching"
    /\ evq # <<>>
    /\ Head(evq).kind \in TerminalEvents
    /\ evq' = Tail(evq)

\* C8: handling a Succeeded, Failed or Cancelled event sends exactly one
\* Message of the matching kind and destroys the remote transaction object.
C8_OneMessageAndDestroy ==
    [][TerminalHandled =>
          /\ queue' = Append(queue, MessageOf[Head(evq).kind])
          /\ \E k \in DOMAIN requests' : requests'[k].op = "destroy"]_vars

(***************************************************************************)
(* Error precedence of mirror_head, the life of a transaction, and the     *)
(* manager's Finished                                                      *)
(***************************************************************************)

\* C12: mirror_head with the name equal to the source returns MirroringItself
\* in every transaction state: with or without the vendor extension, whether
\* or not the name was staged earlier or is in the snapshot.
C12_SelfMirrorIsMirroringItself ==
    (last_call.op = "mirror_head" /\ last_call.output = last_call.mirrored) =>
        last_call.result = "MirroringItself"

\* C13: mirror_head with a name different from the source and a position in
\* the configuration returns PositionForMirroredOutput in every transaction
\* state: with or without the vendor extension, staged earlier or not.
C13_MirrorWithPositionIsRejected ==
    (/\ last_call.op = "mirror_head"
     /\ last_call.output # last_call.mirrored
     /\ last_call.mode # None
     /\ Unwrap(last_call.mode).pos # None) =>
        last_call.result = "PositionForMirroredOutput"

\* How many requests of the kind the transaction has emitted.
CountOf(reqs, op) == Cardinality({k \in DOMAIN reqs : reqs[k].op = op})

\* C15: a transaction moves from Open to exactly one of Tested, Applied or
\* Cancelled and accepts no operation afterwards; cancel emits a destroy and
\* never a test or apply request, test emits exactly one test request and no
\* apply, apply emits exactly one apply request and no test.
C15_ConsumedExactlyOnce ==
    [][/\ txn \in {"tested", "applied", "cancelled"} =>
              (txn' = txn /\ requests' = requests /\ configured_heads' = configured_heads)
       /\ (txn = "open" /\ last_call'.op = "test") =>
              /\ txn' = "tested"
              /\ CountOf(requests', "test") = 1
              /\ CountOf(requests', "apply") = 0
       /\ (txn = "open" /\ last_call'.op = "apply") =>
              /\ txn' = "applied"
              /\ CountOf(requests', "apply") = 1
              /\ CountOf(requests', "test") = 0
       /\ (txn = "open" /\ last_call'.op = "cancel") =>
              /\ txn' = "cancelled"
              /\ CountOf(requests', "destroy") = 1
              /\ CountOf(requests', "test") = 0
              /\ CountOf(requests', "apply") = 0]_vars

\* C16: after the ManagerFinished message no ManagerDone message is sent,
\* also when a Done was deferred and its callback fires after Finished.
C16_NoDoneAfterFinished ==
    [][mgr_finished =>
          ~(Len(queue') > Len(queue) /\ queue'[Len(queue')] = "ManagerDone")]_vars

(***************************************************************************)
(* The registry: Dispatch<WlRegistry>::event                               *)
(***************************************************************************)

\* The highest version a global is advertised at, and how many Global events
\* the registry sends.
MaxVersion == 5
MaxGlobals == 3

Interfaces == {WLR_MANAGER, COSMIC_MANAGER, "wl_output"}

\* Dispatch<WlRegistry>::event, Global { name, interface, version }
RegistryGlobal(interface, version) ==
    /\ Len(advertised) < MaxGlobals
    /\ advertised' = Append(advertised, Global(interface, version))
    /\ IF interface = WLR_MANAGER
       THEN IF version < BaseMinVersion
            THEN /\ ContextSend("Unsupported")
                 /\ UNCHANGED <<output_manager, cosmic_output_manager,
                                output_manager_version, bind_version>>
            ELSE /\ output_manager_version' = version
                 /\ output_manager' = TRUE
                 /\ bind_version' = [bind_version EXCEPT !.wlr = BindVersion(version)]
                 /\ NoSend
                 /\ UNCHANGED cosmic_output_manager
       ELSE IF interface = COSMIC_MANAGER
       THEN /\ cosmic_output_manager' = TRUE
            /\ bind_version' = [bind_version EXCEPT !.cosmic = CosmicBindVersion]
            /\ NoSend
            /\ UNCHANGED <<output_manager, output_manager_version>>
       ELSE /\ NoSend
            /\ UNCHANGED <<output_manager, cosmic_output_manager,
                           output_manager_version, bind_version>>
    /\ UNCHANGED <<output_manager_serial, output_heads, cosmic_manager_sync_callback,
                   done_queued>>
    /\ UNCHANGED <<closed, tx_pc, rx_result, n_sent, received>>
    /\ UNCHANGED <<srvVars, txnVars, flowVars, dspVars, objVars, pureVars, cliVars>>

\* Context::connect has built the context; no global has been seen.
InitConnect == InitChan

NextRegistry ==
    \E interface \in Interfaces, version \in 1..MaxVersion :
        RegistryGlobal(interface, version)

SpecRegistry == InitConnect /\ [][NextRegistry]_vars

\* The step handles an advertisement of the base manager.
BaseAdvertised ==
    /\ Len(advertised') = Len(advertised) + 1
    /\ advertised'[Len(advertised')].interface = WLR_MANAGER

\* C17: on an advertisement of the base manager at a version below 2 an
\* Unsupported message is sent and the manager handle stays as it was
\* (unbound); at version 2 or more the manager is bound at min(advertised, 4)
\* and no Unsupported message is sent.
C17_BindOrUnsupported ==
    [][BaseAdvertised =>
          LET version == advertised'[Len(advertised')].version
          IN  IF version < 2
              THEN /\ queue' = Append(queue, "Unsupported")
                   /\ output_manager' = output_manager
                   /\ bind_version' = bind_version
              ELSE /\ output_manager'
                   /\ bind_version'.wlr = (IF version < 4 THEN version ELSE 4)
                   /\ queue' = queue]_vars

\* The base manager was advertised at version 1 and the client answered
\* Unsupported without binding; then it was advertised at version 5 and bound
\* at version 4.
C17_Witness ==
    /\ Len(advertised) = 2
    /\ advertised[1] = Global(WLR_MANAGER, 1)
    /\ advertised[2] = Global(WLR_MANAGER, 5)
    /\ queue = <<"Unsupported">>
    /\ output_manager
    /\ bind_version.wlr = 4
    /\ output_manager_version = 5

(***************************************************************************)
(* Applying a HeadConfiguration: candidates and adaptive sync              *)
(***************************************************************************)

\* The highest version the extension manager is advertised at.
MaxCosmicVersion == 2

\* The head's modes: any sequence of up to MaxSelModes modes of two sizes and
\* two refresh rates; the i-th mode object has id i.
ApplyModes ==
    UNION { { [i \in 1..n |-> [wlr_mode |-> i, width |-> pick[i][1][1],
                               height |-> pick[i][1][2], refresh |-> pick[i][2],
                               preferred |-> FALSE]] :
                pick \in [1..n -> Sizes \X Refreshes] } :
            n \in 0..MaxSelModes }

AdaptiveSyncStates == {"Always", "Disabled", "Automatic"}

\* The HeadConfiguration values applied: a size or none, a refresh rate or
\* none, an adaptive-sync state or none.
ApplyArgs ==
    { [HeadConfiguration_default EXCEPT !.size = size, !.refresh = refresh,
                                        !.adaptive_sync = vrr] :
        size \in {None, Some(<<1, 1>>)},
        refresh \in {None, Some(600000)},
        vrr \in {None} \cup {Some(s) : s \in AdaptiveSyncStates} }

\* One enabled head "A" with the drawn modes; its current mode is unset, one
\* of its modes, or a mode that has been removed; the extension manager is
\* not advertised or advertised at some version.
InitApply ==
    /\ ChanIdle
    /\ TxnIdle
    /\ FlowIdle
    /\ DispatchIdle
    /\ NoProxyRequests
    /\ NoFunction
    /\ AppIdle
    /\ output_manager = TRUE
    /\ \E cosmic \in 0..MaxCosmicVersion :
          /\ cosmic_output_manager = (cosmic > 0)
          /\ RegBoundAt(BaseMaxVersion, cosmic)
    /\ output_manager_serial = 1
    /\ \E modes \in ApplyModes :
         \E current \in {None} \cup {Some(i) : i \in 1..(Len(modes) + 1)} :
            output_heads = (1 :> [wlr_head |-> 1, cosmic_head |-> cosmic_output_manager,
                                  name |-> "A", enabled |-> TRUE, mirroring |-> None,
                                  current_mode |-> current, modes |-> modes])
    /\ cosmic_manager_sync_callback = None
    /\ done_queued = FALSE
    /\ heads_seen = {1}
    /\ srv_modes = DOMAIN output_heads[1].modes
    /\ mode_data = [id \in srv_modes |-> Some(1)]
    /\ pending_syncs = <<>>
    /\ n_syncs = IF cosmic_output_manager THEN 1 ELSE 0
    /\ n_done = 1
    /\ mgr_finished = FALSE

NextApply ==
    \/ CreateOutputConfig
    \/ \E args \in ApplyArgs : EnableSelected(args)

SpecApply == InitApply /\ [][NextApply]_vars

\* The last call applied a HeadConfiguration to head "A".
ApplyCase == last_call.op = "enable_head" /\ last_call.mode # None
AppliedArgs == Unwrap(last_call.mode)

\* The places in the snapshot head's mode map of the candidates: the modes of
\* the requested size, or without a size the mode that is the current mode.
CandidatePlaces ==
    LET head == known_heads[1]
    IN  {i \in DOMAIN head.modes :
            IF AppliedArgs.size # None
            THEN /\ head.modes[i].width = Unwrap(AppliedArgs.size)[1]
                 /\ head.modes[i].height = Unwrap(AppliedArgs.size)[2]
            ELSE head.current_mode = Some(head.modes[i].wlr_mode)}

\* The mode sent is a candidate, and without a refresh constraint the first
\* candidate in the order of the mode map.
SentModeIsCandidate ==
    /\ Cardinality(SelChosen) <= 1
    /\ last_call.result = "Ok" => Cardinality(SelChosen) = 1
    /\ \A id \in SelChosen :
          \E i \in CandidatePlaces :
              /\ known_heads[1].modes[i].wlr_mode = id
              /\ AppliedArgs.refresh = None => i = SeqMin(CandidatePlaces)

\* The call was rejected for its adaptive-sync state before a mode was chosen.
VrrRejected == last_call.result = "UnsupportedVrrState"

\* C11 as stated: the mode sent by set_mode is a member of the candidate set
\* (a mode of the snapshot head of the requested size, or without a size the
\* current mode), without a refresh constraint the first candidate in map
\* order, and with an empty candidate set the call returns ModeNotFound.
C11_CandidateOrModeNotFound ==
    ApplyCase =>
        /\ SentModeIsCandidate
        /\ CandidatePlaces = {} => last_call.result = "ModeNotFound"

\* C11 as amended: the same, for a call that is not rejected with
\* UnsupportedVrrState before the mode is chosen; such a call sends no mode.
C11_CandidateUnlessVrrRejected ==
    ApplyCase =>
        /\ SentModeIsCandidate
        /\ VrrRejected => SelChosen = {}
        /\ ~VrrRejected =>
              /\ CandidatePlaces = {} => last_call.result = "ModeNotFound"
              /\ (CandidatePlaces # {} /\ AppliedArgs.refresh = None) =>
                    last_call.result = "Ok"

\* A size was requested without a refresh rate, the first mode of the map has
\* another size, and the first mode of the requested size was sent.
C11_Witness ==
    /\ ApplyCase
    /\ last_call.result = "Ok"
    /\ AppliedArgs.size # None
    /\ AppliedArgs.refresh = None
    /\ CandidatePlaces # {}
    /\ 1 \notin CandidatePlaces
    /\ SelChosen = {known_heads[1].modes[SeqMin(CandidatePlaces)].wlr_mode}

\* The version the server advertised the extension manager at (0: not at all).
CosmicAdvertised ==
    LET at == {advertised[k].version :
                  k \in {k \in DOMAIN advertised : advertised[k].interface = COSMIC_MANAGER}}
    IN  IF at = {} THEN 0 ELSE CHOOSE v \in at : \A w \in at : w <= v

\* C14: applying the adaptive-sync state s: when the server advertises the
\* extension at a version that has the tri-state request, s is sent through
\* set_adaptive_sync_ext; otherwise Always and Disabled are sent through the
\* base set_adaptive_sync as Enabled and Disabled, and Automatic returns
\* UnsupportedVrrState.
C14_AdaptiveSyncPath ==
    (ApplyCase /\ AppliedArgs.adaptive_sync # None) =>
        LET s == Unwrap(AppliedArgs.adaptive_sync)
            sent(op, arg) == \E k \in DOMAIN requests :
                                requests[k].op = op /\ requests[k].arg = arg
        IN  IF CosmicAdvertised >= REQ_SET_ADAPTIVE_SYNC_EXT_SINCE
            THEN sent("set_adaptive_sync_ext", <<s>>)
            ELSE /\ s = "Always" => sent("set_adaptive_sync", <<"Enabled">>)
                 /\ s = "Disabled" => sent("set_adaptive_sync", <<"Disabled">>)
                 /\ s = "Automatic" => last_call.result = "UnsupportedVrrState"

(***************************************************************************)
(* The channel under fair scheduling                                       *)
(***************************************************************************)

\* The runtime keeps polling a task that can make progress: a send that has
\* pushed goes on to notify, a drop goes on to notify, a recv that can take a
\* step takes it; and the receiving side keeps calling recv.
FairChan ==
    /\ WF_vars(SendNotify)
    /\ WF_vars(DropNotify)
    /\ WF_vars(RecvCall)
    /\ WF_vars(RecvPop)
    /\ WF_vars(RecvCheckClosed)
    /\ WF_vars(RecvNotified)

SpecChanFair == InitChan /\ [][NextChan]_vars /\ FairChan

\* C18: under fair scheduling every message passed to send is eventually
\* returned by a recv call that is pending or made later.
C18_SentIsEventuallyReceived ==
    \A m \in 1..MaxSend :
        (n_sent >= m) ~> (\E i \in DOMAIN received : received[i] = m)

\* The receiver found the queue empty and went to wait, the sender's
\* notification woke it, and it has returned every message that was sent.
C18_Witness ==
    /\ n_sent >= 2
    /\ Len(received) = n_sent
    /\ rx_pc = "waiting"
    /\ ~closed

(***************************************************************************)
(* async_dispatch, step by step                                            *)
(***************************************************************************)

MaxPending == 2
MaxInterrupts == 1

\* Everything but the dispatch call and the socket.  Here the events are
\* counted, not told apart: what their handlers do is in the sections above.
exceptDispatch ==
    <<chanVars, ctxVars, srvVars, txnVars, flowVars, regVars, objVars, pureVars, cliVars>>

\* Result<usize, DispatchError>
DispatchOk(count) == [kind |-> "Ok", count |-> count, err |-> "none"]
DispatchErr(err) == [kind |-> "Err", count |-> 0, err |-> err]

\* A `?` or `return` of async_dispatch: the call is over.
DispatchReturn(result) ==
    /\ dsp_result' = Some(result)
    /\ dsp_pc' = "idle"

\* No early return: the call goes on to the socket whatever was dispatched.
GoesOnAfter_Always(dispatched) == TRUE

\* lib.rs:70: with nothing dispatched the call goes on to the socket.
GoesOnAfter(dispatched) == dispatched = 0

\* lib.rs:84: async_guard.ready().is_readable()
EndsWait(flags) == "readable" \in flags

\* EventQueue::dispatch_pending: the handlers of the buffered events run and
\* their number is returned, or a handler's event is refused and the error
\* is returned with what was not reached still buffered.
dispatch_pending(buffered) ==
    {[kind |-> "Ok", count |-> buffered, left |-> 0]}
    \cup {[kind |-> "Err", count |-> 0, left |-> left] : left \in 0..(buffered - 1)}

\* The call of async_dispatch up to its first return: dispatch_pending, and
\* the early return when it has dispatched something.
DispatchCall ==
    /\ dsp_pc = "idle"
    /\ at_call' = pending
    /\ io_done' = {}
    /\ n_intr' = 0
    /\ \E dispatched \in dispatch_pending(pending) :
          /\ pending' = dispatched.left
          /\ IF dispatched.kind = "Err"
             THEN DispatchReturn(DispatchErr("WaylandDispatch"))
             ELSE IF GoesOnAfter(dispatched.count)
                  THEN /\ dsp_pc' = "flush"
                       /\ dsp_result' = None
                  ELSE DispatchReturn(DispatchOk(dispatched.count))
    /\ UNCHANGED <<socket, ready>>
    /\ UNCHANGED exceptDispatch

\* connection.flush()?
Flush ==
    /\ dsp_pc = "flush"
    /\ io_done' = io_done \cup {"flush"}
    /\ \/ /\ dsp_pc' = "prepare_read"
          /\ UNCHANGED dsp_result
       \/ DispatchReturn(DispatchErr("Backend"))
    /\ UNCHANGED <<pending, socket, ready, at_call, n_intr>>
    /\ UNCHANGED exceptDispatch

\* connection.prepare_read(): with a guard the call waits for the socket,
\* without one it goes to the last dispatch_pending.
PrepareRead ==
    /\ dsp_pc = "prepare_read"
    /\ io_done' = io_done \cup {"prepare_read"}
    /\ dsp_pc' \in {"wait", "dispatch_pending"}
    /\ UNCHANGED <<pending, socket, ready, at_call, dsp_result, n_intr>>
    /\ UNCHANGED exceptDispatch

\* fd.ready(Interest::ERROR | Interest::READABLE).await resolves with the
\* readiness the fd has: the guard is dropped without clear_ready, so the
\* readiness stays as it is.
WaitReady ==
    /\ dsp_pc = "wait"
    /\ socket # {}
    /\ ready' = Some([kind |-> "Ok", flags |-> socket])
    /\ dsp_pc' = "woken"
    /\ io_done' = io_done \cup {"ready"}
    /\ UNCHANGED <<pending, socket, at_call, dsp_result, n_intr>>
    /\ UNCHANGED exceptDispatch

\* The wait resolves with an error: ErrorKind::Interrupted or another.
WaitErr(kind) ==
    /\ dsp_pc = "wait"
    /\ kind = "Interrupted" => n_intr < MaxInterrupts
    /\ n_intr' = IF kind = "Interrupted" THEN n_intr + 1 ELSE n_intr
    /\ ready' = Some([kind |-> kind, flags |-> {}])
    /\ dsp_pc' = "woken"
    /\ io_done' = io_done \cup {"ready"}
    /\ UNCHANGED <<pending, socket, at_call, dsp_result>>
    /\ UNCHANGED exceptDispatch

\* The match of lib.rs:82-92 on the result of the wait.
Woken ==
    /\ dsp_pc = "woken"
    /\ LET result == Unwrap(ready)
       IN  CASE result.kind = "Ok" ->
                    /\ dsp_pc' = IF EndsWait(result.flags) THEN "read" ELSE "wait"
                    /\ UNCHANGED dsp_result
             [] result.kind = "Interrupted" ->
                    /\ dsp_pc' = "wait"
                    /\ UNCHANGED dsp_result
             [] OTHER -> DispatchReturn(DispatchErr("Backend"))
    /\ ready' = None
    /\ UNCHANGED <<pending, socket, io_done, at_call, n_intr>>
    /\ UNCHANGED exceptDispatch

\* guard.read(): the events on the socket are buffered; WouldBlock is
\* tolerated, any other error is returned.
Read ==
    /\ dsp_pc = "read"
    /\ io_done' = io_done \cup {"read"}
    /\ \/ /\ "readable" \in socket
          /\ \E count \in 1..MaxPending :
                /\ pending + count <= MaxPending
                /\ pending' = pending + count
          /\ socket' = socket \ {"readable"}
          /\ dsp_pc' = "dispatch_pending"
          /\ UNCHANGED dsp_result
       \/ /\ "readable" \notin socket
          /\ dsp_pc' = "dispatch_pending"
          /\ UNCHANGED <<pending, socket, dsp_result>>
       \/ /\ DispatchReturn(DispatchErr("Backend"))
          /\ UNCHANGED <<pending, socket>>
    /\ UNCHANGED <<ready, at_call, n_intr>>
    /\ UNCHANGED exceptDispatch

\* lib.rs:106: the result of the last dispatch_pending is the call's.
LastDispatch ==
    /\ dsp_pc = "dispatch_pending"
    /\ \E dispatched \in dispatch_pending(pending) :
          /\ pending' = dispatched.left
          /\ IF dispatched.kind = "Err"
             THEN DispatchReturn(DispatchErr("WaylandDispatch"))
             ELSE DispatchReturn(DispatchOk(dispatched.count))
    /\ UNCHANGED <<socket, ready, io_done, at_call, n_intr>>
    /\ UNCHANGED exceptDispatch

\* tokio::select! in the caller drops the future of dispatch at its await.
DispatchDropped ==
    /\ dsp_pc = "wait"
    /\ dsp_pc' = "idle"
    /\ dsp_result' = None
    /\ UNCHANGED <<pending, socket, ready, io_done, at_call, n_intr>>
    /\ UNCHANGED exceptDispatch

\* The compositor writes to the socket, or the socket gets an error condition.
SocketReports(flag) ==
    /\ flag \notin socket
    /\ socket' = socket \cup {flag}
    /\ UNCHANGED <<dsp_pc, pending, ready, io_done, at_call, dsp_result, n_intr>>
    /\ UNCHANGED exceptDispatch

\* dispatch is called with an event queue that holds any number of events.
InitDispatch ==
    /\ ChanIdle
    /\ CtxIdle
    /\ TxnIdle
    /\ FlowIdle
    /\ RegAsBound
    /\ NoProxyRequests
    /\ NoFunction
    /\ AppIdle
    /\ dsp_pc = "idle"
    /\ pending \in 0..MaxPending
    /\ socket = {}
    /\ ready = None
    /\ io_done = {}
    /\ at_call = 0
    /\ dsp_result = None
    /\ n_intr = 0

NextDispatch ==
    \/ DispatchCall
    \/ Flush
    \/ PrepareRead
    \/ WaitReady
    \/ \E kind \in {"Interrupted", "Other"} : WaitErr(kind)
    \/ Woken
    \/ Read
    \/ LastDispatch
    \/ DispatchDropped
    \/ \E flag \in {"readable", "error"} : SocketReports(flag)

SpecDispatch == InitDispatch /\ [][NextDispatch]_vars

\* The runtime polls the future of dispatch while it can go on: a wait that
\* the fd's readiness resolves is resumed, and the steps between two awaits run.
FairDispatch ==
    /\ WF_vars(Flush)
    /\ WF_vars(PrepareRead)
    /\ WF_vars(WaitReady)
    /\ WF_vars(Woken)
    /\ WF_vars(Read)
    /\ WF_vars(LastDispatch)

SpecDispatchFair == InitDispatch /\ [][NextDispatch]_vars /\ FairDispatch

\* C19: a call of dispatch made with at least one event buffered is over
\* after its first dispatch_pending, without a flush, a prepare_read, a wait
\* on the socket or a read; the events it processed are gone from the queue
\* and their number is what it returns.
C19_BufferedReturnsAtOnce ==
    at_call > 0 =>
        /\ dsp_pc = "idle"
        /\ io_done = {}
        /\ dsp_result # None
        /\ Unwrap(dsp_result).kind = "Ok" =>
              /\ Unwrap(dsp_result).count = at_call
              /\ pending = 0

\* Two events were buffered at the call, and the call returned 2.
C19_Witness ==
    /\ at_call = 2
    /\ dsp_pc = "idle"
    /\ dsp_result = Some(DispatchOk(2))
    /\ io_done = {}

\* Inside the loop of lib.rs:81-93.
InWaitLoop == dsp_pc \in {"wait", "woken"}

\* C20: once the socket reports readability or an error condition, the wait
\* loop of dispatch is left: for the read, or with an error returned.
C20_ReadinessEndsWait ==
    (InWaitLoop /\ socket # {}) ~> ~InWaitLoop

(***************************************************************************)
(* Releasing heads: the Finished handler and Context::clear                *)
(***************************************************************************)

\* Context::clear: output_heads is taken, release is called on every head
\* whose proxy can be made from its id, and stop on the manager if there is one.
ContextClear ==
    /\ proxy_requests' =
          proxy_requests
          \cup {ProxyRequest("release", "head", head, ProxyVersion) :
                   head \in DOMAIN output_heads}
          \cup (IF output_manager
                THEN {ProxyRequest("stop", "manager", 0, ProxyVersion)}
                ELSE {})
    /\ output_heads' = <<>>
    /\ UNCHANGED <<mode_data, srv_modes>>
    /\ HandlerFrame

\* After Context::connect to a compositor that advertised the base manager at
\* any version the client accepts.
InitRelease ==
    /\ ChanIdle
    /\ TxnIdle
    /\ FlowIdle
    /\ DispatchIdle
    /\ NoProxyRequests
    /\ NoFunction
    /\ AppIdle
    /\ output_manager = TRUE
    /\ cosmic_output_manager = FALSE
    /\ output_manager_serial = 0
    /\ output_heads = <<>>
    /\ cosmic_manager_sync_callback = None
    /\ done_queued = FALSE
    /\ heads_seen = {}
    /\ mode_data = <<>>
    /\ srv_modes = {}
    /\ pending_syncs = <<>>
    /\ n_syncs = 0
    /\ n_done = 0
    /\ mgr_finished = FALSE
    /\ \E version \in BaseMinVersion..MaxVersion : RegBoundAt(version, 0)

NextRelease ==
    \/ \E head \in HeadIds : Dispatched(ManagerHead(head))
    \/ \E head \in HeadIds, mode \in ModeIds : Dispatched(HeadMode(head, mode))
    \/ \E head \in HeadIds : Dispatched(HeadFinished(head))
    \/ \E mode \in ModeIds : Dispatched(ModeFinished(mode))
    \/ Dispatched(ManagerFinished)
    \/ Dispatched(ContextClear)

SpecRelease == InitRelease /\ [][NextRelease]_vars

\* C21: a release request is sent on a head object only if the head's
\* version is at least 3, by the Finished handler and by Context::clear.
C21_HeadReleaseOnlySince3 ==
    \A request \in proxy_requests :
        (request.request = "release" /\ request.object = "head") =>
            request.version >= ReleaseSince

(***************************************************************************)
(* Staging calls that fail                                                 *)
(***************************************************************************)

\* C22: a staging call that returns an error leaves the transaction's list of
\* staged names as it was, so that a later call for the name is judged as if
\* the failed call had not been made.
C22_FailedStagingLeavesNames ==
    [][(n_calls' = n_calls + 1 /\ last_call'.op \in StagingOps /\ last_call'.result # "Ok")
          => configured_heads' = configured_heads]_vars

(***************************************************************************)
(* The ordering of OutputMode                                              *)
(***************************************************************************)

MaxDim == 2

\* Everything but the function under study.
exceptPure ==
    <<chanVars, ctxVars, srvVars, txnVars, flowVars, regVars, dspVars, objVars, cliVars>>

\* i32::cmp
IntCmp(x, y) == IF x < y THEN "Less" ELSE IF x > y THEN "Greater" ELSE "Equal"

\* Ordering::then
Then(first, second) == IF first = "Equal" THEN second ELSE first

\* Ordering::reverse
Reverse(ordering) ==
    CASE ordering = "Less" -> "Greater"
      [] ordering = "Greater" -> "Less"
      [] OTHER -> "Equal"

\* An ascending comparison: the chain of Ord::cmp without its reverse().
OutputMode_cmp_Ascending(self, other) ==
    Then(Then(IntCmp(self.width, other.width), IntCmp(self.height, other.height)),
         IntCmp(self.refresh, other.refresh))

\* impl Ord for OutputMode
OutputMode_cmp(self, other) ==
    Reverse(Then(Then(IntCmp(self.width, other.width), IntCmp(self.height, other.height)),
                 IntCmp(self.refresh, other.refresh)))

\* The modes compared: any width, height and refresh, preferred or not.
OrdModes(flags) ==
    [width : 0..MaxDim, height : 0..MaxDim, refresh : 0..MaxDim, preferred : flags]

\* The program at rest, while a function is studied on its own.
ProgramIdle ==
    /\ ChanIdle
    /\ CtxIdle
    /\ TxnIdle
    /\ FlowIdle
    /\ DispatchIdle
    /\ NoProxyRequests
    /\ AppIdle
    /\ RegAsBound

\* Three modes to compare.
InitOrd ==
    /\ ProgramIdle
    /\ fn_args \in OrdModes(BOOLEAN) \X OrdModes({FALSE}) \X OrdModes({FALSE})
    /\ fn_value = None

\* The modes are compared with each other, the first two both ways round.
CompareModes ==
    /\ fn_value = None
    /\ fn_value' = Some([ab |-> OutputMode_cmp(fn_args[1], fn_args[2]),
                         ba |-> OutputMode_cmp(fn_args[2], fn_args[1]),
                         bc |-> OutputMode_cmp(fn_args[2], fn_args[3]),
                         ac |-> OutputMode_cmp(fn_args[1], fn_args[3])])
    /\ UNCHANGED fn_args
    /\ UNCHANGED exceptPure

SpecOrd == InitOrd /\ [][CompareModes]_vars

\* (width, height, refresh), and the lexicographic order of such triples.
SortKey(mode) == <<mode.width, mode.height, mode.refresh>>
LexGreater(k, l) ==
    \/ k[1] > l[1]
    \/ k[1] = l[1] /\ k[2] > l[2]
    \/ k[1] = l[1] /\ k[2] = l[2] /\ k[3] > l[3]

\* C23: a sorts before b exactly when (a.width, a.height, a.refresh) is
\* lexicographically greater than b's triple, the two compare equal exactly
\* when the triples are equal, and the comparison is a total order:
\* antisymmetric and transitive.
C23_DescendingLexicographic ==
    fn_value # None =>
        LET a == fn_args[1]
            b == fn_args[2]
            got == Unwrap(fn_value)
            Before(ordering) == ordering \in {"Less", "Equal"}
        IN  /\ got.ab = "Less" <=> LexGreater(SortKey(a), SortKey(b))
            /\ got.ab = "Equal" <=> SortKey(a) = SortKey(b)
            /\ got.ba = Reverse(got.ab)
            /\ (Before(got.ab) /\ Before(got.bc)) => Before(got.ac)

\* Two modes of the same width and height: the one of the higher refresh
\* rate sorts first.
C23_Witness ==
    /\ fn_value # None
    /\ fn_args[1].width = fn_args[2].width
    /\ fn_args[1].height = fn_args[2].height
    /\ fn_args[1].refresh > fn_args[2].refresh
    /\ Unwrap(fn_value).ab = "Less"

(***************************************************************************)
(* cosmic-randr-shell: a List written as a KDL document and read back      *)
(***************************************************************************)

MaxKdlModes == 2

\* KdlValue: a string, an integer, a float or a bool.  A float is held in
\* hundredths.
KdlString(s) == [type |-> "string", s |-> s, i |-> 0, b |-> FALSE]
KdlInteger(i) == [type |-> "integer", s |-> "", i |-> i, b |-> FALSE]
KdlFloat(i) == [type |-> "float", s |-> "", i |-> i, b |-> FALSE]
KdlBool(b) == [type |-> "bool", s |-> "", i |-> 0, b |-> b]

\* KdlValue::as_string, as_integer, as_float, as_bool
as_string(v) == IF v.type = "string" THEN Some(v.s) ELSE None
as_integer(v) == IF v.type = "integer" THEN Some(v.i) ELSE None
as_float(v) == IF v.type = "float" THEN Some(v.i) ELSE None
as_bool(v) == IF v.type = "bool" THEN Some(v.b) ELSE None

\* KdlEntry: a value (KdlNode::push of a value) or a property (of a pair).
KdlValueEntry(v) == [name |-> None, value |-> v]
KdlProperty(name, v) == [name |-> Some(name), value |-> v]

\* KdlNode::new, with its entries and children set
KdlNode(name, entries, children) ==
    [name |-> name, entries |-> entries, children |-> children]

\* as_integer().unwrap_or_default() as u32 (or as i32): the cast keeps every
\* value that was written from a u32 (or an i32).
IntegerOrDefault(v) == IF as_integer(v) = None THEN 0 ELSE Unwrap(as_integer(v))

\* Display for Transform and TryFrom<&str> for Transform
Transforms ==
    [Normal |-> "normal", Rotate90 |-> "rotate90", Rotate180 |-> "rotate180",
     Rotate270 |-> "rotate270", Flipped |-> "flipped", Flipped90 |-> "flipped90",
     Flipped180 |-> "flipped180", Flipped270 |-> "flipped270"]
Transform_to_string(transform) == Transforms[transform]
Transform_try_from(string) ==
    LET found == {transform \in DOMAIN Transforms : Transforms[transform] = string}
    IN  IF found = {} THEN None ELSE Some(CHOOSE transform \in found : TRUE)

\* From<AdaptiveSyncState> for KdlValue and AdaptiveSyncState::try_from_kdl_value
AdaptiveSyncState_to_kdl(state) ==
    CASE state = "Disabled" -> KdlBool(FALSE)
      [] state = "Always" -> KdlBool(TRUE)
      [] state = "Auto" -> KdlString("automatic")
AdaptiveSyncState_from_kdl(v) ==
    IF as_bool(v) # None
    THEN Some(IF Unwrap(as_bool(v)) THEN "Always" ELSE "Disabled")
    ELSE IF as_string(v) = Some("automatic") THEN Some("Auto") ELSE None

\* From<AdaptiveSyncAvailability> for KdlValue and
\* AdaptiveSyncAvailability::try_from_kdl_value
AdaptiveSyncAvailability_to_kdl(availability) ==
    CASE availability = "Unsupported" -> KdlBool(FALSE)
      [] availability = "Supported" -> KdlBool(TRUE)
      [] availability = "RequiresModeset" -> KdlString("requires_modeset")
AdaptiveSyncAvailability_from_kdl(v) ==
    IF as_bool(v) # None
    THEN Some(IF Unwrap(as_bool(v)) THEN "Supported" ELSE "Unsupported")
    ELSE IF as_string(v) = Some("requires_modeset") THEN Some("RequiresModeset") ELSE None

\* Output::new
Output_new ==
    [serial_number |-> "", name |-> "", enabled |-> FALSE, mirroring |-> None,
     make |-> None, model |-> "", physical |-> <<0, 0>>, position |-> <<0, 0>>,
     scale |-> 100, transform |-> None, modes |-> <<>>, current |-> None,
     adaptive_sync |-> None, adaptive_sync_availability |-> None,
     xwayland_primary |-> None]

\* Mode::new
Mode_new == [size |-> <<0, 0>>, refresh_rate |-> 0, preferred |-> FALSE]

\* One element if the condition holds.
When(condition, element) == IF condition THEN <<element>> ELSE <<>>

\* The `mode` nodes of an output: one for each of its keys that is in the
\* list's modes.
ModeNodes(list, output) ==
    LET nodes[k \in 0..Len(output.modes)] ==
            IF k = 0 THEN <<>>
            ELSE LET key == output.modes[k]
                 IN  IF key \in DOMAIN list.modes
                     THEN Append(nodes[k - 1],
                              KdlNode("mode",
                                  <<KdlValueEntry(KdlInteger(list.modes[key].size[1])),
                                    KdlValueEntry(KdlInteger(list.modes[key].size[2])),
                                    KdlValueEntry(KdlInteger(list.modes[key].refresh_rate))>>
                                  \o When(output.current = Some(key),
                                          KdlProperty("current", KdlBool(TRUE)))
                                  \o When(list.modes[key].preferred,
                                          KdlProperty("preferred", KdlBool(TRUE))),
                                  None))
                     ELSE nodes[k - 1]
    IN  nodes[Len(output.modes)]

\* The node written for one output.
OutputNode(list, output) ==
    KdlNode("output",
        When(output.serial_number # "", KdlValueEntry(KdlString(output.serial_number)))
        \o <<KdlValueEntry(KdlString(output.name)),
             KdlProperty("enabled", KdlBool(output.enabled))>>,
        Some(
            When(output.make # None \/ output.model # "",
                 KdlNode("description",
                     (IF output.make # None
                      THEN <<KdlProperty("make", KdlString(Unwrap(output.make)))>> ELSE <<>>)
                     \o When(output.model # "", KdlProperty("model", KdlString(output.model))),
                     None))
            \o <<KdlNode("physical",
                     <<KdlValueEntry(KdlInteger(output.physical[1])),
                       KdlValueEntry(KdlInteger(output.physical[2]))>>, None),
                 KdlNode("position",
                     <<KdlValueEntry(KdlInteger(output.position[1])),
                       KdlValueEntry(KdlInteger(output.position[2]))>>, None),
                 KdlNode("scale", <<KdlValueEntry(KdlFloat(output.scale))>>, None)>>
            \o (IF output.transform # None
                THEN <<KdlNode("transform",
                           <<KdlValueEntry(KdlString(
                                 Transform_to_string(Unwrap(output.transform))))>>, None)>>
                ELSE <<>>)
            \o (IF output.adaptive_sync # None
                THEN <<KdlNode("adaptive_sync",
                           <<KdlValueEntry(AdaptiveSyncState_to_kdl(
                                 Unwrap(output.adaptive_sync)))>>, None)>>
                ELSE <<>>)
            \o (IF output.adaptive_sync_availability # None
                THEN <<KdlNode("adaptive_sync_support",
                           <<KdlValueEntry(AdaptiveSyncAvailability_to_kdl(
                                 Unwrap(output.adaptive_sync_availability)))>>, None)>>
                ELSE <<>>)
            \o (IF output.mirroring # None
                THEN <<KdlNode("mirroring",
                           <<KdlValueEntry(KdlString(Unwrap(output.mirroring)))>>, None)>>
                ELSE <<>>)
            \o (IF output.xwayland_primary # None
                THEN <<KdlNode("xwayland_primary",
                           <<KdlValueEntry(KdlBool(Unwrap(output.xwayland_primary)))>>, None)>>
                ELSE <<>>)
            \o When(ModeNodes(list, output) # <<>>,
                    KdlNode("modes", <<>>, Some(ModeNodes(list, output))))))

\* impl From<List> for KdlDocument
KdlDocument_from(list) ==
    [k \in DOMAIN list.outputs |-> OutputNode(list, list.outputs[k])]

\* The first entry of a node, if any.
FirstEntry(node) == IF node.entries = <<>> THEN None ELSE Some(node.entries[1])

\* One `mode` node read: the mode, and whether it is the current one.
ModeFromNode(node) ==
    LET sized == IF Len(node.entries) >= 3
                 THEN [Mode_new EXCEPT
                          !.size = <<IntegerOrDefault(node.entries[1].value),
                                     IntegerOrDefault(node.entries[2].value)>>,
                          !.refresh_rate = IntegerOrDefault(node.entries[3].value)]
                 ELSE Mode_new
        flags == {k \in 4..Len(node.entries) : node.entries[k].name # None}
        Named(k, name) == k \in flags /\ Unwrap(node.entries[k].name) = name
    IN  [mode |-> [sized EXCEPT !.preferred =
                      \E k \in 4..Len(node.entries) : Named(k, "preferred")],
         current |-> \E k \in 4..Len(node.entries) : Named(k, "current"),
         errors |-> Cardinality({k \in 4..Len(node.entries) :
                                    ~Named(k, "preferred") /\ ~Named(k, "current")})]

\* The children of a `modes` node read into the output and the list's modes.
ModesFromNodes(acc, nodes) ==
    LET read[k \in 0..Len(nodes)] ==
            IF k = 0 THEN acc
            ELSE LET before == read[k - 1]
                 IN  IF nodes[k].name = "mode"
                     THEN LET got == ModeFromNode(nodes[k])
                              mode_id == Len(before.modes) + 1
                          IN  [before EXCEPT
                                 !.modes = Append(@, got.mode),
                                 !.output.current = IF got.current THEN Some(mode_id) ELSE @,
                                 !.output.modes = Append(@, mode_id),
                                 !.errors = @ + got.errors]
                     ELSE [before EXCEPT !.errors = @ + 1]
    IN  read[Len(nodes)]

\* One child node of an output read: the arm of the match on its name.
OutputChild(acc, node) ==
    LET first == FirstEntry(node)
        Invalid == [acc EXCEPT !.errors = @ + 1]
        FirstOr(Set(_)) == IF first = None THEN Invalid ELSE Set(Unwrap(first).value)
    IN  CASE node.name = "serial_number" ->
                 LET Set(v) == [acc EXCEPT !.output.serial_number =
                                    IF as_string(v) = None THEN "" ELSE Unwrap(as_string(v))]
                 IN  FirstOr(Set)
          [] node.name = "description" ->
                 LET read[k \in 0..Len(node.entries)] ==
                         IF k = 0 THEN acc
                         ELSE LET entry == node.entries[k]
                                  text == as_string(entry.value)
                              IN  CASE entry.name = Some("make") ->
                                           [read[k - 1] EXCEPT !.output.make = text]
                                    [] entry.name = Some("model") ->
                                           IF text = None THEN read[k - 1]
                                           ELSE [read[k - 1] EXCEPT
                                                    !.output.model = Unwrap(text)]
                                    [] OTHER -> [read[k - 1] EXCEPT !.errors = @ + 1]
                 IN  read[Len(node.entries)]
          [] node.name \in {"physical", "position"} ->
                 IF Len(node.entries) >= 2
                 THEN LET pair == <<IntegerOrDefault(node.entries[1].value),
                                    IntegerOrDefault(node.entries[2].value)>>
                      IN  IF node.name = "physical"
                          THEN [acc EXCEPT !.output.physical = pair]
                          ELSE [acc EXCEPT !.output.position = pair]
                 ELSE Invalid
          [] node.name = "scale" ->
                 LET Set(v) == IF as_float(v) = None THEN acc
                               ELSE [acc EXCEPT !.output.scale = Unwrap(as_float(v))]
                 IN  FirstOr(Set)
          [] node.name = "transform" ->
                 LET Set(v) == IF as_string(v) = None THEN acc
                               ELSE [acc EXCEPT !.output.transform =
                                        Transform_try_from(Unwrap(as_string(v)))]
                 IN  FirstOr(Set)
          [] node.name = "adaptive_sync" ->
                 LET Set(v) == [acc EXCEPT !.output.adaptive_sync =
                                    AdaptiveSyncState_from_kdl(v)]
                 IN  FirstOr(Set)
          [] node.name = "adaptive_sync_support" ->
                 LET Set(v) == [acc EXCEPT !.output.adaptive_sync_availability =
                                    AdaptiveSyncAvailability_from_kdl(v)]
                 IN  FirstOr(Set)
          [] node.name = "modes" ->
                 IF node.children = None THEN Invalid
                 ELSE ModesFromNodes(acc, Unwrap(node.children))
          [] node.name = "mirroring" ->
                 IF first # None /\ as_string(Unwrap(first).value) # None
                 THEN [acc EXCEPT !.output.mirroring = as_string(Unwrap(first).value)]
                 ELSE Invalid
          [] node.name = "xwayland_primary" ->
                 IF first # None /\ as_bool(Unwrap(first).value) # None
                 THEN [acc EXCEPT !.output.xwayland_primary = as_bool(Unwrap(first).value)]
                 ELSE Invalid
          [] OTHER -> Invalid

\* One root node read: an output is added to the list unless the loop
\* `continue`s; every error is counted.
OutputFromNode(list, node) ==
    LET first == FirstEntry(node)
        name == IF first = None THEN None ELSE as_string(Unwrap(first).value)
        rest == 2..Len(node.entries)
        unnamed == {k \in rest : node.entries[k].name = None}
        enabling == {k \in rest : /\ node.entries[k].name = Some("enabled")
                                  /\ as_bool(node.entries[k].value) # None}
        start == [output |-> [Output_new EXCEPT !.enabled =
                                 IF enabling = {} THEN FALSE
                                 ELSE Unwrap(as_bool(node.entries[
                                          CHOOSE k \in enabling :
                                              \A l \in enabling : l <= k].value))],
                  modes |-> list.modes,
                  errors |-> list.errors + Cardinality(unnamed)]
    IN  IF node.name # "output" THEN [list EXCEPT !.errors = @ + 1]
        ELSE IF name = None THEN [list EXCEPT !.errors = @ + 1]
        ELSE IF node.children = None
             THEN [list EXCEPT !.errors = @ + Cardinality(unnamed) + 1]
             ELSE LET nodes == Unwrap(node.children)
                      read[k \in 0..Len(nodes)] ==
                          IF k = 0 THEN start ELSE OutputChild(read[k - 1], nodes[k])
                      done == read[Len(nodes)]
                  IN  [outputs |-> Append(list.outputs,
                                      [done.output EXCEPT !.name = Unwrap(name)]),
                       modes |-> done.modes,
                       errors |-> done.errors]

\* impl TryFrom<KdlDocument> for List: the list read, and the number of
\* errors (Ok when there is none, else Err with the list and the errors).
List_try_from(document) ==
    LET read[k \in 0..Len(document)] ==
            IF k = 0 THEN [outputs |-> <<>>, modes |-> <<>>, errors |-> 0]
            ELSE OutputFromNode(read[k - 1], document[k])
    IN  read[Len(document)]

\* The modes of a List and the outputs described with them.
KdlModes ==
    {[size |-> <<1920, 1080>>, refresh_rate |-> 60000, preferred |-> TRUE],
     [size |-> <<1280, 720>>, refresh_rate |-> 59940, preferred |-> FALSE]}

KdlOutputs(keys) ==
    [serial_number : {"", "SN-1"}, name : {"HDMI-A-1"}, enabled : BOOLEAN,
     mirroring : {None, Some("eDP-1")}, make : {None, Some("Hello")}, model : {"", "Hi"},
     physical : {<<344, 194>>}, position : {<<0, 0>>, <<-1920, 0>>}, scale : {100, 150},
     transform : {None, Some("Rotate90")}, modes : {keys},
     current : {None} \cup {Some(key) : key \in {1} \cap DOMAIN keys},
     adaptive_sync : {None, Some("Always"), Some("Auto"), Some("Disabled")},
     adaptive_sync_availability :
         {None, Some("Supported"), Some("RequiresModeset"), Some("Unsupported")},
     xwayland_primary : {None, Some(TRUE), Some(FALSE)}]

\* A List of one output that holds every mode of the list, in key order.
InitKdl ==
    /\ ProgramIdle
    /\ \E n \in 0..MaxKdlModes :
          \E output \in KdlOutputs([k \in 1..n |-> k]), modes \in [1..n -> KdlModes] :
              fn_args = [outputs |-> <<output>>, modes |-> modes]
    /\ fn_value = None

\* The List is made a KdlDocument, and the document, written and parsed by
\* the kdl crate, is made a List again.
KdlRoundTrip ==
    /\ fn_value = None
    /\ fn_value' = Some(List_try_from(KdlDocument_from(fn_args)))
    /\ UNCHANGED fn_args
    /\ UNCHANGED exceptPure

SpecKdl == InitKdl /\ [][KdlRoundTrip]_vars

\* The modes of an output, by value and in its order.
ModesOf(list, output) == [k \in DOMAIN output.modes |-> list.modes[output.modes[k]]]

\* C24: a List written as a KDL document and read back gives no parse error
\* and, for every output, the same serial_number, name, enabled, mirroring,
\* make, model, physical, position, scale, transform, adaptive_sync,
\* adaptive_sync_availability and xwayland_primary and the same modes in the
\* same order.
C24_KdlRoundTrip ==
    fn_value # None =>
        LET list == fn_args
            read == Unwrap(fn_value)
        IN  /\ read.errors = 0
            /\ Len(read.outputs) = Len(list.outputs)
            /\ \A k \in DOMAIN list.outputs :
                  LET a == list.outputs[k]
                      b == read.outputs[k]
                  IN  /\ a.serial_number = b.serial_number
                      /\ a.name = b.name
                      /\ a.enabled = b.enabled
                      /\ a.mirroring = b.mirroring
                      /\ a.make = b.make
                      /\ a.model = b.model
                      /\ a.physical = b.physical
                      /\ a.position = b.position
                      /\ a.scale = b.scale
                      /\ a.transform = b.transform
                      /\ a.adaptive_sync = b.adaptive_sync
                      /\ a.adaptive_sync_availability = b.adaptive_sync_availability
                      /\ a.xwayland_primary = b.xwayland_primary
                      /\ ModesOf(list, a) = ModesOf(read, b)

(***************************************************************************)
(* What a head, extension-head or mode event changes                       *)
(***************************************************************************)

\* The events of heads, of extension heads and of modes, in any order.
NextFrame ==
    \/ \E head \in HeadIds : Dispatched(ManagerHead(head))
    \/ \E head \in HeadIds, name \in Names : Dispatched(HeadName(head, name))
    \/ \E head \in HeadIds, mode \in ModeIds : Dispatched(HeadMode(head, mode))
    \/ \E head \in HeadIds, mode \in ModeIds : Dispatched(HeadCurrentMode(head, mode))
    \/ \E head \in HeadIds : Dispatched(HeadFinished(head))
    \/ \E head \in HeadIds : Dispatched(CosmicMirroring(head, Some("A")))
    \/ \E mode \in ModeIds, size \in Sizes : Dispatched(ModeSize(mode, size))
    \/ \E mode \in ModeIds : Dispatched(ModeFinished(mode))

SpecFrame == InitBound /\ [][NextFrame]_vars

\* The step is the handling of an event of the head, or of its extension head.
HeadEventOn(head) ==
    \/ \E name \in Names : HeadName(head, name)
    \/ \E mode \in ModeIds : HeadMode(head, mode) \/ HeadCurrentMode(head, mode)
    \/ HeadFinished(head)
    \/ CosmicMirroring(head, Some("A"))

\* The step is the handling of an event of the mode.
ModeEventOn(mode) ==
    \/ \E size \in Sizes : ModeSize(mode, size)
    \/ ModeFinished(mode)

\* Every head entry but that of `head` is what it was.
OtherHeadsKept(head) ==
    /\ DOMAIN output_heads' \ {head} = DOMAIN output_heads \ {head}
    /\ \A other \in DOMAIN output_heads \ {head} : output_heads'[other] = output_heads[other]

\* In the head's entry nothing but the entry of `mode` has changed.
OtherModesKept(head, mode) ==
    head \in DOMAIN output_heads =>
        /\ head \in DOMAIN output_heads'
        /\ [output_heads'[head] EXCEPT !.modes = <<>>] = [output_heads[head] EXCEPT !.modes = <<>>]
        /\ ShiftRemove(output_heads'[head].modes, mode) = ShiftRemove(output_heads[head].modes, mode)

\* C25: the handling of a head or extension-head event changes only the
\* entry of that head; the handling of a mode event changes only that mode's
\* entry in the head that announced the mode, and nothing when the mode has
\* no such head.
C25_OnlyTheOriginatingEntry ==
    [][/\ \A head \in HeadIds : HeadEventOn(head) => OtherHeadsKept(head)
       /\ \A mode \in ModeIds : ModeEventOn(mode) =>
             IF mode_data[mode] = None
             THEN output_heads' = output_heads
             ELSE /\ OtherHeadsKept(Unwrap(mode_data[mode]))
                  /\ OtherModesKept(Unwrap(mode_data[mode]), mode)]_vars

\* Two heads with a mode each; the second head's mode has got its size while
\* the first head's mode still has none, and the first head mirrors.
C25_Witness ==
    /\ DOMAIN output_heads = {1, 2}
    /\ output_heads[1].modes # <<>>
    /\ output_heads[2].modes # <<>>
    /\ output_heads[1].modes[1].width = 0
    /\ output_heads[2].modes[1].width # 0
    /\ output_heads[1].mirroring # None
    /\ output_heads[2].mirroring = None

(***************************************************************************)
(* The configuration serial                                                *)
(***************************************************************************)

\* The manager's events, with a compositor that numbers its Done events
\* 1, 2, ..., and the opening and cancelling of transactions in between.
NextSerial ==
    \/ \E head \in HeadIds : Dispatched(ManagerHead(head))
    \/ Dispatched(ManagerDone(n_done + 1))
    \/ Dispatched(ManagerFinished)
    \/ Dispatched(CallbackDone)
    \/ CreateOutputConfig
    \/ Cancel

SpecSerial == InitBound /\ [][NextSerial]_vars

\* The serial of the last Done event handled: 0 before any and after Finished.
LatestDoneSerial == IF mgr_finished THEN 0 ELSE n_done

\* C26: output_manager_serial is always the serial of the most recently
\* handled Done event (0 before any Done and after Finished), also while the
\* ManagerDone message is deferred, and a transaction is opened with it.
C26_SerialIsLatestDone ==
    [][/\ output_manager_serial = LatestDoneSerial
       /\ output_manager_serial' = LatestDoneSerial'
       /\ (txn # "open" /\ txn' = "open") => txn_serial' = LatestDoneSerial]_vars

\* A transaction was opened with serial 2 while the ManagerDone message of
\* the second Done event was still deferred.
C26_Witness ==
    /\ txn = "open"
    /\ txn_serial = 2
    /\ n_done = 2
    /\ done_queued
    /\ cosmic_manager_sync_callback # None

(***************************************************************************)
(* The App flows that change a mode or a position (cli/src/main.rs):       *)
(* App::mode, App::set_position and App::auto_correct_offsets              *)
(***************************************************************************)

\* The values of Mode::to_head_config used here: the size of OnlyMode, without
\* and with a position.
ModeArgs ==
    { [HeadConfiguration_default EXCEPT !.size = Some(<<1, 1>>)],
      [HeadConfiguration_default EXCEPT !.size = Some(<<1, 1>>), !.pos = Some(<<0, 0>>)] }

\* The corrected positions auto_correct_offsets stages; the object model here
\* carries no positions, so they are inputs.
CorrectedPositions == {<<0, 0>>, <<1, 0>>}

\* The orders in which HashMap::values() can yield the heads.
HeadOrders ==
    {order \in [1..Cardinality(DOMAIN output_heads) -> DOMAIN output_heads] :
        \A i, j \in DOMAIN order : order[i] = order[j] => i = j}

\* Context::create_output_config as a value, the snapshot taken in `order`.
create_output_config(order) ==
    [known_heads |-> [i \in DOMAIN order |-> output_heads[order[i]]],
     configured_heads |-> <<>>, requests |-> <<>>, cosmic_obj |-> cosmic_output_manager]

\* fn set_mode up to its staging call: the head is the first of that name in
\* the live map; a mirroring head without a requested position stays a mirror.
set_mode(order, output, args) ==
    LET found == FindHead(create_output_config(order).known_heads, output)
        mirroring == IF found = None THEN None ELSE Unwrap(found).mirroring
    IN  IF mirroring # None /\ args.pos = None
        THEN mirror_head(create_output_config(order), output, Unwrap(mirroring), Some(args))
        ELSE enable_head(create_output_config(order), output, Some(args))

\* fn set_position up to its staging call
set_position(order, name, pos) ==
    enable_head(create_output_config(order), name,
                Some([HeadConfiguration_default EXCEPT !.pos = Some(pos)]))

\* The end of set_mode and of set_position: `?` returns the staging error and
\* the Configuration is dropped; otherwise test() or apply() finalizes it.
TestOrApply(staged, test) ==
    LET rest == configure_remaining_heads(staged.c)
    IN  IF staged.result # "Ok"
        THEN [c |-> staged.c, result |-> staged.result, txn |-> "dropped"]
        ELSE IF rest.result # "Ok"
             THEN [c |-> rest.c, result |-> rest.result, txn |-> "panicked"]
             ELSE [c |-> Emit(rest.c, <<Req(IF test THEN "test" ELSE "apply", 0, <<>>)>>),
                   result |-> "Ok", txn |-> IF test THEN "tested" ELSE "applied"]

\* One call of set_mode or set_position by the App: the transaction it
\* opened replaces the previous one; after a finalized transaction the App
\* goes into receive_config_messages.
Transaction(op, output, done) ==
    /\ txn' = done.txn
    /\ known_heads' = done.c.known_heads
    /\ configured_heads' = done.c.configured_heads
    /\ cosmic_obj' = done.c.cosmic_obj
    /\ txn_serial' = output_manager_serial
    /\ requests' = done.c.requests
    /\ last_call' = [op |-> op, output |-> output, mirrored |-> "", mode |-> None,
                     result |-> done.result, n_before |-> 0]
    /\ n_calls' = n_calls + 1
    /\ outcome' = "none"
    /\ cli_pc' = IF done.result = "Ok" THEN "receiving" ELSE "returned"
    /\ UNCHANGED <<wire, evq, srv_script>>
    /\ UNCHANGED <<chanVars, ctxVars, srvVars, regVars, dspVars, objVars, pureVars>>

\* What the flow becomes after the call: waiting for the answer, ended by the
\* error, or dead by the panic of configure_remaining_heads.
AfterCall(waiting, done) ==
    IF done.result = "Ok" THEN waiting
    ELSE IF done.txn = "panicked" THEN "panicked" ELSE "err"

\* App::mode, to its first await after dispatch_until_manager_done
AppMode(output, args, test) ==
    /\ app.pc = "start"
    /\ \E order \in HeadOrders :
          \E staged \in {set_mode(order, output, args)} :
          \E done \in {TestOrApply(staged, test)} :
              /\ Transaction("set_mode", output, done)
              /\ app' = [app EXCEPT !.pc = AfterCall("first", done), !.output = output,
                                    !.test = test,
                                    !.finalized = IF done.result = "Ok" THEN 1 ELSE 0]

\* App::set_position, to its first await after dispatch_until_manager_done
AppSetPosition(output, pos, test) ==
    /\ app.pc = "start"
    /\ \E order \in HeadOrders :
          \E staged \in {set_position(order, output, pos)} :
          \E done \in {TestOrApply(staged, test)} :
              /\ Transaction("set_position", output, done)
              /\ app' = [app EXCEPT !.pc = AfterCall("first", done), !.output = output,
                                    !.test = test,
                                    !.finalized = IF done.result = "Ok" THEN 1 ELSE 0]

\* self.receive_config_messages().await? has returned Ok: the loop ended on
\* ConfigurationSucceeded.
ReceivedSucceeded_NoWait == TRUE

ReceivedSucceeded ==
    /\ cli_pc = "returned"
    /\ received # <<>>
    /\ received[Len(received)] = "ConfigurationSucceeded"

\* config_message returned Err for ConfigurationFailed or
\* ConfigurationCancelled: `?` ends the flow.
ReceiveFailed ==
    /\ app.pc \in {"first", "correcting"}
    /\ cli_pc = "returned"
    /\ received # <<>>
    /\ received[Len(received)] \in {"ConfigurationFailed", "ConfigurationCancelled"}
    /\ app' = [app EXCEPT !.pc = "err"]
    /\ UNCHANGED <<chanVars, ctxVars, srvVars, txnVars, flowVars, regVars, dspVars, objVars,
                   pureVars>>

\* The heads auto_correct_offsets repositions.
Repositioned == {id \in DOMAIN output_heads :
                    output_heads[id].enabled /\ output_heads[id].mirroring = None}

\* The let-else of auto_correct_offsets: the first head of the moved name,
\* its current mode and that mode's entry.
ActiveOutput(order, output) ==
    LET found == FindHead([i \in DOMAIN order |-> output_heads[order[i]]], output)
    IN  /\ found # None
        /\ Unwrap(found).current_mode # None
        /\ Unwrap(Unwrap(found).current_mode) \in ModeKeys(Unwrap(found).modes)

\* App::auto_correct_offsets up to its loop: without an active output it
\* returns Ok; otherwise `updates` holds the names of the enabled heads that
\* mirror nothing, in the map's order.
AutoCorrectOffsets ==
    /\ app.pc = "first"
    /\ ReceivedSucceeded
    /\ \E order \in HeadOrders :
          LET updates == SelectSeq([i \in DOMAIN order |-> order[i]],
                                   LAMBDA id : id \in Repositioned)
              names == [i \in DOMAIN updates |-> output_heads[updates[i]].name]
          IN  IF ActiveOutput(order, app.output)
              THEN app' = [app EXCEPT !.pc = "correcting", !.planned = Some(names),
                                      !.updates = names]
              ELSE app' = [app EXCEPT !.pc = "ok"]
    /\ UNCHANGED <<chanVars, ctxVars, srvVars, txnVars, flowVars, regVars, dspVars, objVars,
                   pureVars>>

\* One turn of the loop over `updates`: set_position for the next name, then
\* receive_config_messages; after the last name the flow returns Ok.
CorrectNext ==
    /\ app.pc = "correcting"
    /\ ReceivedSucceeded
    /\ IF app.updates = <<>>
       THEN /\ app' = [app EXCEPT !.pc = "ok"]
            /\ UNCHANGED <<chanVars, ctxVars, srvVars, txnVars, flowVars, regVars, dspVars,
                           objVars, pureVars>>
       ELSE \E order \in HeadOrders, pos \in CorrectedPositions :
              \E name \in {Head(app.updates)} :
              \E staged \in {set_position(order, name, pos)} :
              \E done \in {TestOrApply(staged, app.test)} :
                  /\ Transaction("set_position", name, done)
                  /\ app' = [app EXCEPT
                        !.pc = AfterCall("correcting", done),
                        !.updates = Tail(@),
                        !.corrections = IF done.result = "Ok" THEN Append(@, name) ELSE @,
                        !.finalized = IF done.result = "Ok" THEN @ + 1 ELSE @]

NextCli ==
    \/ \E output \in Names, args \in ModeArgs, test \in BOOLEAN : AppMode(output, args, test)
    \/ \E output \in Names, pos \in CorrectedPositions, test \in BOOLEAN :
            AppSetPosition(output, pos, test)
    \/ AutoCorrectOffsets
    \/ CorrectNext
    \/ ReceiveFailed
    \/ TryRecv
    \/ ReadSocket
    \/ DispatchPending
    \/ ServerProcess
    \/ ServerEmit

SpecCli == InitTxn /\ [][NextCli]_vars

\* The terminal Messages receive_config_messages has taken from the channel,
\* and the finalized transactions whose terminal Message it has not taken yet.
TerminalsReceived ==
    Cardinality({i \in DOMAIN received : received[i] \in TerminalMessages})
Outstanding == app.finalized - TerminalsReceived

\* The step finalizes a transaction.
Finalizes == app.finalized' > app.finalized

\* The step ends auto_correct_offsets, with Ok or with an error.
EndsCorrections ==
    \/ app.pc = "first" /\ app'.pc = "ok"
    \/ app.pc = "correcting" /\ app'.pc \in {"ok", "err", "panicked"}

MaxCandidates == 2

\* The 4.0 of the clamps and of the snap tests.
SnapDistance == 4

\* Rectangle; R::default() is the zero rectangle.
Rectangle(x, y, width, height) == [x |-> x, y |-> y, width |-> width, height |-> height]
Rectangle_default == Rectangle(0, 0, 0, 0)

\* Points are held in half pixels, so that x + width / 2 stays an integer.
Point(x, y) == [x |-> x, y |-> y]
center_x(r) == 2 * r.x + r.width
center_y(r) == 2 * r.y + r.height
center(r) == Point(center_x(r), center_y(r))
east_point(r) == Point(2 * r.x, center_y(r))
north_point(r) == Point(center_x(r), 2 * r.y)
west_point(r) == Point(2 * (r.x + r.width), center_y(r))
south_point(r) == Point(center_x(r), 2 * (r.y + r.height))

\* A length is held as its square, which orders lengths as the lengths do:
\* ((b.x - a.x).powf(2.0) + (b.y - a.y).powf(2.0)).sqrt()
distance(a, b) == (b.x - a.x) * (b.x - a.x) + (b.y - a.y) * (b.y - a.y)

\* A length times 1.25 against a length as it is: on the squares, 25 : 16.
TimesOneAndAQuarter(length) == 25 * length
AsItIs(length) == 16 * length

\* nearest > value, with f32::MAX (None) above every length
Nearer_OrEqual(nearest, value) == nearest = None \/ Unwrap(nearest) >= value

Nearer(nearest, value) == nearest = None \/ Unwrap(nearest) > value

\* if nearest > value { (nearest, nearest_side, nearer) = (value, side, true); }
TestSide(acc, value, side) ==
    IF Nearer(acc.nearest, value)
    THEN [acc EXCEPT !.nearest = Some(value), !.nearest_side = side, !.nearer = TRUE]
    ELSE acc

\* The four values of a candidate, in the order East, West, North, South.
SideNames == <<"East", "West", "North", "South">>
SideValues(new_region, other_display) ==
    <<TimesOneAndAQuarter(distance(east_point(other_display), center(new_region))),
      TimesOneAndAQuarter(distance(west_point(other_display), center(new_region))),
      AsItIs(distance(north_point(other_display), center(new_region))),
      AsItIs(distance(south_point(other_display), center(new_region)))>>

\* The body of the loop for the i-th candidate; `chosen` records its index.
NearestOf(acc, new_region, other_display, i) ==
    LET values == SideValues(new_region, other_display)
        east == TestSide([acc EXCEPT !.nearer = FALSE], values[1], "East")
        west == TestSide(east, values[2], "West")
        north == TestSide(west, values[3], "North")
        south == TestSide(north, values[4], "South")
    IN  IF south.nearer
        THEN [south EXCEPT !.nearest_region = other_display, !.chosen = i]
        ELSE south

\* The loop over other_displays from the i-th candidate on.
RECURSIVE FindNearest(_, _, _, _)
FindNearest(acc, new_region, other_displays, i) ==
    IF i > Len(other_displays)
    THEN acc
    ELSE FindNearest(NearestOf(acc, new_region, other_displays[i], i),
                     new_region, other_displays, i + 1)

\* f32::max and f32::min
Max(a, b) == IF a >= b THEN a ELSE b

\* v.max(low + 4.0).min(high - 4.0)
Clamp_NoMargin(v, low, high) == Min(Max(v, low), high)

Clamp(v, low, high) == Min(Max(v, low + SnapDistance), high - SnapDistance)

\* The match on nearest_side: attach to the side, clamp the other coordinate.
Attach(r, nearest_region, nearest_side) ==
    CASE nearest_side = "East" ->
            [r EXCEPT !.x = nearest_region.x - r.width,
                      !.y = Clamp(r.y, nearest_region.y - r.height,
                                  nearest_region.y + nearest_region.height)]
      [] nearest_side = "North" ->
            [r EXCEPT !.y = nearest_region.y - r.height,
                      !.x = Clamp(r.x, nearest_region.x - r.width,
                                  nearest_region.x + nearest_region.width)]
      [] nearest_side = "West" ->
            [r EXCEPT !.x = nearest_region.x + nearest_region.width,
                      !.y = Clamp(r.y, nearest_region.y - r.height,
                                  nearest_region.y + nearest_region.height)]
      [] nearest_side = "South" ->
            [r EXCEPT !.y = nearest_region.y + nearest_region.height,
                      !.x = Clamp(r.x, nearest_region.x - r.width,
                                  nearest_region.x + nearest_region.width)]

\* (a - b).abs() <= 4.0
SnapNear_Always(a, b) == TRUE

SnapNear(a, b) == Abs(a - b) <= SnapDistance

\* The four snap tests, each on the rectangle the one before it left.
SnapX(r, n) == IF SnapNear(r.x, n.x) THEN [r EXCEPT !.x = n.x] ELSE r
SnapRight(r, n) ==
    IF SnapNear(r.x + r.width, n.x + n.width)
    THEN [r EXCEPT !.x = n.x + n.width - r.width] ELSE r
SnapY(r, n) == IF SnapNear(r.y, n.y) THEN [r EXCEPT !.y = n.y] ELSE r
SnapBottom(r, n) ==
    IF SnapNear(r.y + r.height, n.y + n.height)
    THEN [r EXCEPT !.y = n.y + n.height - r.height] ELSE r
Snap(r, n) == SnapBottom(SnapY(SnapRight(SnapX(r, n), n), n), n)

\* display(): what it leaves in new_region, with the locals it chose by.
display(new_region, other_displays) ==
    LET found == FindNearest([nearest |-> None, nearest_region |-> Rectangle_default,
                              nearest_side |-> "East", nearer |-> FALSE, chosen |-> 0],
                             new_region, other_displays, 1)
        attached == Attach(new_region, found.nearest_region, found.nearest_side)
    IN  [new_region |-> Snap(attached, found.nearest_region),
         attached |-> attached,
         nearest_region |-> found.nearest_region,
         nearest_side |-> found.nearest_side,
         chosen |-> found.chosen]

\* The rectangles display() is studied on: a grid of positions and sizes, and
\* layouts of two rectangles of one size that touch along a whole side.
AlignCoords == {-14, -3, 5, 20}
AlignSizes == {10, 16}
AlignRectangles ==
    {Rectangle(x, y, w, h) : x \in AlignCoords, y \in AlignCoords,
                             w \in AlignSizes, h \in AlignSizes}
\* display() commutes with translations: the moved rectangle keeps one y.
MovedRectangles == {r \in AlignRectangles : r.y = 5}
TouchingSizes == {<<1920, 1080>>, <<10, 16>>, <<5, 5>>, <<4, 10>>, <<10, 4>>, <<2, 2>>}
TouchingOrigins == {<<0, 0>>, <<-7, 5>>}
Neighbours(r) ==
    {Rectangle(r.x + r.width, r.y, r.width, r.height),
     Rectangle(r.x - r.width, r.y, r.width, r.height),
     Rectangle(r.x, r.y + r.height, r.width, r.height),
     Rectangle(r.x, r.y - r.height, r.width, r.height)}

InitAlign ==
    /\ ProgramIdle
    /\ fn_value = None
    /\ \/ \E n \in 0..MaxCandidates :
            \E new_region \in MovedRectangles, others \in [1..n -> AlignRectangles] :
                fn_args = <<new_region, others>>
       \/ \E size \in TouchingSizes, origin \in TouchingOrigins :
            LET new_region == Rectangle(origin[1], origin[2], size[1], size[2])
            IN  \E other \in Neighbours(new_region) : fn_args = <<new_region, <<other>>>>

Display ==
    /\ fn_value = None
    /\ fn_value' = Some(display(fn_args[1], fn_args[2]))
    /\ UNCHANGED fn_args
    /\ UNCHANGED exceptPure

SpecAlign == InitAlign /\ [][Display]_vars

\* The call under study and its result.
Moved == fn_args[1]
Candidates == fn_args[2]
Displayed == Unwrap(fn_value)

\* The square of the distance from the moved rectangle's center to the
\* midpoint of side s (1 East, 2 West, 3 North, 4 South) of candidate i.
SquaredDistance(i, s) ==
    LET other == Candidates[i]
        mid == CASE s = 1 -> east_point(other) [] s = 2 -> west_point(other)
                 [] s = 3 -> north_point(other) [] s = 4 -> south_point(other)
    IN  (center(Moved).x - mid.x) * (center(Moved).x - mid.x)
        + (center(Moved).y - mid.y) * (center(Moved).y - mid.y)

\* (candidate, side) pairs in the order candidate, then East, West, North, South.
Pairs == (DOMAIN Candidates) \X (1..4)
Earlier(p, q) == p[1] < q[1] \/ (p[1] = q[1] /\ p[2] < q[2])

\* The pair with the least value, the earliest among equals.
EarliestLeast(Value(_), p) ==
    \A q \in Pairs : Value(p) < Value(q) \/ (Value(p) = Value(q) /\ ~Earlier(q, p))

\* The pair display() chose.
ChosenPair(p) ==
    /\ Displayed.chosen = p[1]
    /\ Displayed.nearest_side = SideNames[p[2]]
    /\ Displayed.nearest_region = Candidates[p[1]]

\* The values as stated: squared distances, East and West times 1.25 (here
\* times 4, to stay in the integers).
SquaredValue(p) == IF p[2] <= 2 THEN 5 * SquaredDistance(p[1], p[2])
                   ELSE 4 * SquaredDistance(p[1], p[2])

\* The values as computed: distances, East and West times 1.25. Distances are
\* compared by their squares: (1.25 d)^2 : d'^2 = 25 d^2 : 16 d'^2.
DistanceValue(p) == IF p[2] <= 2 THEN 25 * SquaredDistance(p[1], p[2])
                    ELSE 16 * SquaredDistance(p[1], p[2])

\* C28 as stated: the candidate and side chosen are those with the least of
\* the values: squared distance to the east and west midpoints times 1.25,
\* squared distance to the north and south midpoints; the earliest wins ties.
C28_LeastSquaredDistance ==
    (fn_value # None /\ Candidates # <<>>) =>
        \A p \in Pairs : EarliestLeast(SquaredValue, p) => ChosenPair(p)

\* C28 as amended: the values are the Euclidean distances themselves, not
\* their squares: distance to the east and west midpoints times 1.25,
\* distance to the north and south midpoints; the candidate and side chosen
\* are those with the least value, the earliest in (candidate order, then
\* East, West, North, South) winning ties.
C28_LeastDistance ==
    (fn_value # None /\ Candidates # <<>>) =>
        \A p \in Pairs : EarliestLeast(DistanceValue, p) => ChosenPair(p)

\* Two candidates, and the least value is reached by a later pair as well.
C28_Witness ==
    /\ fn_value # None
    /\ Len(Candidates) = 2
    /\ \E p, q \in Pairs :
          /\ ChosenPair(p)
          /\ Earlier(p, q)
          /\ DistanceValue(p) = DistanceValue(q)
          /\ p[1] # q[1]

\* Every width and height of the call is greater than `least`.
SizesAbove(least) ==
    /\ Moved.width > least /\ Moved.height > least
    /\ \A i \in DOMAIN Candidates :
          Candidates[i].width > least /\ Candidates[i].height > least

\* r lies against side `side` of c.
FlushAgainst(r, c, side) ==
    CASE side = "East" -> r.x = c.x - r.width
      [] side = "West" -> r.x = c.x + c.width
      [] side = "North" -> r.y = c.y - r.height
      [] side = "South" -> r.y = c.y + c.height

\* r and c share at least 4 pixels along side `side` of c.
WithinClampRange(r, c, side) ==
    IF side \in {"East", "West"}
    THEN c.y - r.height + 4 <= r.y /\ r.y <= c.y + c.height - 4
    ELSE c.x - r.width + 4 <= r.x /\ r.x <= c.x + c.width - 4

\* C29: after display() with at least one candidate and all widths and
\* heights greater than 8, the moved rectangle is flush against the chosen
\* side of the chosen candidate and its perpendicular coordinate lies in the
\* clamp range, after the attachment and also after the final snapping.
C29_FlushAndWithinClampRange ==
    (fn_value # None /\ Candidates # <<>> /\ SizesAbove(8)) =>
        /\ Displayed.chosen \in DOMAIN Candidates
        /\ Displayed.nearest_region = Candidates[Displayed.chosen]
        /\ FlushAgainst(Displayed.attached, Displayed.nearest_region, Displayed.nearest_side)
        /\ WithinClampRange(Displayed.attached, Displayed.nearest_region,
                            Displayed.nearest_side)
        /\ FlushAgainst(Displayed.new_region, Displayed.nearest_region,
                        Displayed.nearest_side)
        /\ WithinClampRange(Displayed.new_region, Displayed.nearest_region,
                            Displayed.nearest_side)

\* The second of two candidates was chosen, the rectangle was attached to
\* its east side, and the snapping moved it along that side.
C29_Witness ==
    /\ fn_value # None
    /\ Len(Candidates) = 2
    /\ SizesAbove(8)
    /\ Displayed.chosen = 2
    /\ Displayed.nearest_side = "East"
    /\ Displayed.attached.x # Moved.x
    /\ Displayed.new_region.y # Displayed.attached.y

\* One candidate of the moved rectangle's size that touches it along a whole
\* side.
TouchingSameSize ==
    /\ Len(Candidates) = 1
    /\ Candidates[1] \in Neighbours(Moved)

\* C30 as stated: a moved rectangle that is flush against one side of its
\* only neighbour, has its size and is edge-aligned with it is left
\* unchanged by display().
C30_TouchingIsFixedPoint ==
    (fn_value # None /\ TouchingSameSize) => Displayed.new_region = Moved

\* C30 as amended: such a rectangle is left unchanged when its width and
\* height are greater than 4, the snapping distance; the 1920x1080 layout
\* with the neighbour on any of the four sides is a fixed point.
C30_TouchingAbove4IsFixedPoint ==
    (fn_value # None /\ TouchingSameSize /\ SizesAbove(4)) => Displayed.new_region = Moved

\* The example: moved 1920x1080 at the origin, neighbour at (1920, 0).
C30_Witness ==
    /\ fn_value # None
    /\ Moved = Rectangle(0, 0, 1920, 1080)
    /\ Candidates = <<Rectangle(1920, 0, 1920, 1080)>>
    /\ Displayed.nearest_side = "East"
    /\ Displayed.new_region = Moved

(***************************************************************************)
(* cli/src/main.rs: the offsets of App::auto_correct_offsets.  The heads   *)
(* are the object model's values in iteration order; active is the moved   *)
(* rectangle's origin after align::display, converted with `as i32`.       *)
(* Positions are i32: a subtraction that leaves the range panics in a      *)
(* build with overflow checks and wraps in a build without them.           *)
(***************************************************************************)
MaxLayoutHeads == 3

I32Max == 2147483647

I32Min == (-I32Max) - 1

\* a - b is representable in an i32.
SubFits(a, b) == IF b >= 0 THEN a >= I32Min + b ELSE a <= I32Max + b

\* a - b modulo 2^32, computed without leaving the 32-bit range.
WrappingSub(a, b) ==
    IF SubFits(a, b) THEN a - b
    ELSE IF b < 0 THEN (a - I32Max - 1) + (I32Min - b)
    ELSE (a + I32Max + 1) + ((I32Max - b) + 1)

\* `x - offset` of the build: None where the subtraction panics.
Sub(a, b, overflow_checks) ==
    IF SubFits(a, b) THEN Some(a - b)
    ELSE IF overflow_checks THEN None ELSE Some(WrappingSub(a, b))

\* .filter(|head| head.enabled && head.mirroring.is_none())
IsPositioned(head) == head.enabled /\ head.mirroring = None

Positioned(heads) == SelectSeq(heads, IsPositioned)

\* The (x, y) the folds and the map read for a head.
PlacedAt(head, output, active) ==
    IF output = head.name THEN active ELSE <<head.position_x, head.position_y>>

\* fold((i32::MAX, i32::MAX), |offset, p| (offset.0.min(x), offset.1.min(y)))
RECURSIVE FoldMin(_, _)
FoldMin(points, offset) ==
    IF points = <<>> THEN offset
    ELSE FoldMin(Tail(points),
                 <<Min(offset[1], Head(points)[1]), Min(offset[2], Head(points)[2])>>)

\* The positions of `points` less `offset`, up to the first subtraction
\* that panics: [done |-> the positions computed, panicked |-> BOOLEAN].
RECURSIVE LessOffset(_, _, _)
LessOffset(points, offset, overflow_checks) ==
    IF points = <<>> THEN [done |-> <<>>, panicked |-> FALSE]
    ELSE \* x is evaluated before y
         LET x == Sub(Head(points)[1], offset[1], overflow_checks)
             y == Sub(Head(points)[2], offset[2], overflow_checks)
         IN  IF x = None \/ y = None THEN [done |-> <<>>, panicked |-> TRUE]
             ELSE LET rest == LessOffset(Tail(points), offset, overflow_checks)
                  IN  [done |-> <<(<<Unwrap(x), Unwrap(y)>>)>> \o rest.done,
                       panicked |-> rest.panicked]

\* The positions handed to set_position, in order, and whether the function
\* panicked: every update is computed before the first one is issued.
auto_correct_offsets(heads, output, active, overflow_checks) ==
    LET positioned == Positioned(heads)
        placed == [i \in DOMAIN positioned |-> PlacedAt(positioned[i], output, active)]
        updates == LessOffset(placed, FoldMin(placed, <<I32Max, I32Max>>), overflow_checks)
    IN  IF updates.panicked THEN [issued |-> <<>>, panicked |-> TRUE]
        ELSE LET issued == LessOffset(updates.done,
                                      FoldMin(updates.done, <<I32Max, I32Max>>),
                                      overflow_checks)
             IN  [issued |-> issued.done, panicked |-> issued.panicked]

LayoutXs == {-3, 4, I32Max}

LayoutYs == {-3, 0}

LayoutHeads ==
    {head \in [name : Names, enabled : BOOLEAN, mirroring : {None, Some("B")},
               position_x : LayoutXs, position_y : LayoutYs] :
        head.enabled \/ head.mirroring = None}

MovedOutput == "A"

ActivePositions == {<<-3, 0>>, <<4, -3>>}

InitOffsets ==
    /\ ProgramIdle
    /\ fn_value = None
    /\ \E n \in 1..MaxLayoutHeads :
         \E heads \in [1..n -> LayoutHeads], active \in ActivePositions,
            overflow_checks \in BOOLEAN :
             /\ \E i \in 1..n : heads[i].name = MovedOutput
             /\ fn_args = <<heads, MovedOutput, active, overflow_checks>>

Offsets ==
    /\ fn_value = None
    /\ fn_value' = Some(auto_correct_offsets(fn_args[1], fn_args[2], fn_args[3], fn_args[4]))
    /\ UNCHANGED fn_args
    /\ UNCHANGED exceptPure

SpecOffsets == InitOffsets /\ [][Offsets]_vars

OffsetHeads == fn_args[1]

Issued == Unwrap(fn_value).issued

\* The indexes of the enabled, non-mirrored heads, and a head's place among
\* them.
PositionedIndexes == {i \in DOMAIN OffsetHeads : IsPositioned(OffsetHeads[i])}

Rank(i) == Cardinality({j \in PositionedIndexes : j <= i})

\* The moved head is the one `find` returns: the first head named `output`.
MovedIndex == SeqMin({i \in DOMAIN OffsetHeads : OffsetHeads[i].name = fn_args[2]})

LayoutPosition(i) ==
    IF i = MovedIndex THEN fn_args[3]
    ELSE <<OffsetHeads[i].position_x, OffsetHeads[i].position_y>>

\* a - b = c - d, where both differences are i32 values.
SameDifference(a, b, c, d) == SubFits(a, b) /\ SubFits(c, d) /\ a - b = c - d

\* C31: whenever an enabled, non-mirrored head exists, a position is issued
\* for each such head, every issued x and y is >= 0, some issued x is 0, some
\* issued y is 0, and the differences between the heads' positions, with the
\* moved head at its auto-layout position, are preserved.
C31_AnchoredAtOrigin ==
    (fn_value # None /\ PositionedIndexes # {}) =>
        /\ Len(Issued) = Cardinality(PositionedIndexes)
        /\ \A k \in DOMAIN Issued : Issued[k][1] >= 0 /\ Issued[k][2] >= 0
        /\ \E k \in DOMAIN Issued : Issued[k][1] = 0
        /\ \E k \in DOMAIN Issued : Issued[k][2] = 0
        /\ \A i, j \in PositionedIndexes : \A c \in 1..2 :
                SameDifference(Issued[Rank(i)][c], Issued[Rank(j)][c],
                               LayoutPosition(i)[c], LayoutPosition(j)[c])

(***************************************************************************)
(* output_manager.rs: the queued ManagerDone and the stored sync callback. *)
(***************************************************************************)
\* C32: in every reachable state of the manager handlers done_queued is
\* true only while a sync callback is stored: done_queued implies that
\* cosmic_manager_sync_callback is set.
C32_QueuedOnlyWithCallback == done_queued => cosmic_manager_sync_callback # None

\* A Done was queued behind the second of two round-trips, the first of
\* which has been answered.
C32_Witness ==
    /\ done_queued
    /\ n_syncs = 2
    /\ pending_syncs = <<2>>
    /\ cosmic_manager_sync_callback = Some(2)

\* The server answers every sync request: an outstanding callback is
\* eventually dispatched.
FairManager == WF_vars(Dispatched(CallbackDone))

SpecManagerFair == InitBound /\ [][NextManager]_vars /\ FairManager

\* The ManagerDone messages sent so far.
ManagerDoneSent == Cardinality({i \in DOMAIN queue : queue[i] = "ManagerDone"})

\* C33: provided the server answers every sync request, every Manager Done
\* event that is handled is followed by a ManagerDone message on the
\* channel: once the handled Done events are more than k, the messages sent
\* are eventually more than they were when k Done events had been handled.
C33_DoneIsEventuallySent ==
    \A k \in 0..(MaxDone - 1) : \A m \in 0..MaxDone :
        [](n_done = k /\ ManagerDoneSent = m
             => [](n_done > k => <>(ManagerDoneSent > m)))

\* A Done is queued while two round-trips are outstanding: the answer to the
\* first does not release it, the answer to the second does.
C33_Witness ==
    /\ done_queued
    /\ n_done = 1
    /\ pending_syncs = <<1, 2>>
    /\ cosmic_manager_sync_callback = Some(2)
    /\ ManagerDoneSent = 0

\* C34: the automatic staging done by test and apply never aborts: each
\* staging call made by configure_remaining_heads returns Ok, for every
\* snapshot and every set of explicitly staged heads.
C34_RemainingHeadsNeverAbort ==
    last_call.op \in {"test", "apply"} => last_call.result = "Ok"

(***************************************************************************)
(* context.rs: Context::apply_current_config.  The object model keeps the  *)
(* fields the handlers modelled here write; position, scale, transform and *)
(* adaptive_sync have the values of OutputHead::new.                       *)
(***************************************************************************)
\* output.modes.get(mode_id) of the head's current mode.
CurrentModeOf(output) ==
    IF output.current_mode = None THEN None
    ELSE FindFirst(output.modes, LAMBDA mode : mode.wlr_mode = Unwrap(output.current_mode))

\* The HeadConfiguration apply_current_config builds for a head.
CurrentConfiguration(output) ==
    LET mode == CurrentModeOf(output)
    IN  [size |-> IF mode = None THEN None
                  ELSE Some(<<Unwrap(mode).width, Unwrap(mode).height>>),
         \* mode.refresh as f32 / 1000.0
         refresh |-> IF mode = None THEN None
                     ELSE Some(Unwrap(mode).refresh * TenthsPerMilli),
         adaptive_sync |-> None,
         pos |-> Some(<<0, 0>>),
         scale |-> Some(1000),
         transform |-> None]

\* The staging call of the loop for one head of the snapshot.
StageCurrent(c, output) ==
    IF output.enabled
    THEN IF output.mirroring # None
         THEN mirror_head(c, output.name, Unwrap(output.mirroring),
                          Some(CurrentConfiguration(output)))
         ELSE enable_head(c, output.name, Some(CurrentConfiguration(output)))
    ELSE disable_head(c, output.name)

\* The loop of apply_current_config from the i-th head of the snapshot on;
\* unwrap() panics on the first staging call that returns an error.
RECURSIVE ApplyFrom(_, _, _)
ApplyFrom(c, i, configured) ==
    IF i > Len(c.known_heads)
    THEN Returned(c, "Ok")
    ELSE IF Contains(configured, c.known_heads[i].name)
         THEN ApplyFrom(c, i + 1, configured)
         ELSE LET staged == StageCurrent(c, c.known_heads[i])
              IN  IF staged.result # "Ok"
                  THEN staged
                  ELSE ApplyFrom(staged.c, i + 1, configured)

\* The call returned `result` before it created a transaction.
Refused(result) ==
    /\ last_call' = [op |-> "apply_current_config", output |-> "", mirrored |-> "",
                     mode |-> None, result |-> result, n_before |-> Len(requests)]
    /\ UNCHANGED <<txn, known_heads, configured_heads, cosmic_obj, txn_serial, requests,
                   n_calls>>

\* Context::apply_current_config.  `supported` is the outcome of comparing
\* the bound extension's version with REQ_SET_XWAYLAND_PRIMARY_SINCE, a
\* constant of the protocol crate.  The manager is bound: the call is made
\* after ManagerDone and before any Finished.
ApplyCurrentConfig(supported) ==
    /\ txn = "none"
    /\ output_manager
    /\ IF ~cosmic_output_manager
       THEN Refused("NoCosmicExtension")
       ELSE IF ~supported
       THEN Refused("UnsupportedXwaylandPrimary")
       ELSE \E order \in [1..Cardinality(DOMAIN output_heads) -> DOMAIN output_heads] :
              /\ \A i, j \in DOMAIN order : order[i] = order[j] => i = j
              /\ known_heads' = [i \in DOMAIN order |-> output_heads[order[i]]]
              /\ cosmic_obj' = TRUE
              /\ txn_serial' = output_manager_serial
              /\ \E returned \in {ApplyFrom([known_heads |-> known_heads',
                                             configured_heads |-> <<>>,
                                             requests |-> requests,
                                             cosmic_obj |-> TRUE], 1, <<>>)} :
                    /\ configured_heads' = returned.c.configured_heads
                    /\ IF returned.result = "Ok"
                       THEN /\ requests' = Append(returned.c.requests, Req("apply", 0, <<>>))
                            /\ txn' = "applied"
                       ELSE /\ requests' = returned.c.requests
                            /\ txn' = "panicked"
                    /\ last_call' = [op |-> "apply_current_config", output |-> "",
                                     mirrored |-> "", mode |-> None,
                                     result |-> returned.result, n_before |-> Len(requests)]
              /\ UNCHANGED n_calls
    /\ UNCHANGED exceptTxn

NextApplyCurrent == \E supported \in BOOLEAN : ApplyCurrentConfig(supported)

SpecApplyCurrent == InitTxn /\ [][NextApplyCurrent]_vars

\* The call went past the tests of the extension and its version.
ExtensionSupportsIt ==
    /\ last_call.op = "apply_current_config"
    /\ last_call.result \notin {"NoCosmicExtension", "UnsupportedXwaylandPrimary"}

DispatchAborted == dsp_pc = "panicked"

\* state.output_heads.get_mut(data).expect("Inert CosmicOutputHead") on a
\* missing entry.
InertCosmicOutputHead ==
    /\ dsp_pc' = "panicked"
    /\ UNCHANGED <<pending, socket, ready, io_done, at_call, dsp_result, n_intr>>
    /\ UNCHANGED <<chanVars, ctxVars, srvVars, txnVars, flowVars, regVars, objVars,
                   pureVars, cliVars>>

\* Dispatch<ZcosmicOutputHeadV1>::event, Mirroring { name }, on the extension
\* head that get_head created for `head`.
CosmicHeadEvent(head, name) ==
    /\ cosmic_output_manager
    /\ head \in heads_seen
    /\ IF head \in DOMAIN output_heads
       THEN Dispatched(CosmicMirroring(head, name))
       ELSE InertCosmicOutputHead

\* A handler runs while no handler has panicked.
Running(Handler) == ~DispatchAborted /\ Handler

\* Heads are announced, named, given modes and finished; events of the
\* extension heads and of the modes arrive at any time.
NextInert ==
    \/ \E head \in HeadIds : Running(Dispatched(ManagerHead(head)))
    \/ \E head \in HeadIds, name \in Names : Running(Dispatched(HeadName(head, name)))
    \/ \E head \in HeadIds, mode \in ModeIds : Running(Dispatched(HeadMode(head, mode)))
    \/ \E head \in HeadIds : Running(Dispatched(HeadFinished(head)))
    \/ \E head \in HeadIds : Running(CosmicHeadEvent(head, Some("A")))
    \/ \E mode \in ModeIds, size \in Sizes : Running(Dispatched(ModeSize(mode, size)))

SpecInert == InitBound /\ [][NextInert]_vars

\* The step handles an extension-head event whose head entry was removed.
CosmicEventForRemovedHead ==
    \E head \in HeadIds :
        /\ head \notin DOMAIN output_heads
        /\ CosmicHeadEvent(head, Some("A"))

\* C36: an extension-head event that arrives after the base head's entry was
\* removed by Finished is handled without aborting dispatch and leaves the
\* object model unchanged (as a Mode event for a removed head does, which is
\* a step that changes nothing).
C36_InertExtensionEventIgnored ==
    [][CosmicEventForRemovedHead =>
          /\ ~DispatchAborted'
          /\ output_heads' = output_heads]_vars

(***************************************************************************)
(* cli/src/main.rs: a command from Context::connect to its transaction.    *)
(* app.pc is "start" while connect's round-trips deliver the globals,      *)
(* "until_done" in the loop of dispatch_until_manager_done and "done" once *)
(* the loop has left with a ManagerDone message.                           *)
(***************************************************************************)
\* The versions a compositor advertises a manager at: below the least
\* supported one, or above the highest the client binds.
ConnectVersions == {BaseMinVersion - 1, MaxVersion}

\* A global is advertised once.
Advertises(interface) == \E i \in DOMAIN advertised : advertised[i].interface = interface

\* The registry handler runs during connect's round-trip.
ConnectGlobal(interface, version) ==
    /\ app.pc = "start"
    /\ ~Advertises(interface)
    /\ RegistryGlobal(interface, version)

\* The command calls dispatch_until_manager_done.
EnterLoop ==
    /\ app.pc = "start"
    /\ app' = [app EXCEPT !.pc = "until_done"]
    /\ UNCHANGED <<chanVars, ctxVars, srvVars, txnVars, flowVars, regVars, dspVars, objVars,
                   pureVars>>

\* The dispatch branch of select!: a handler runs on an event of the manager
\* or on a sync callback.
LoopDispatch(Handler) ==
    /\ app.pc = "until_done"
    /\ Dispatched(Handler)

\* The watcher branch of select!: recv returns the front message; the loop
\* is left on ManagerDone and any other message is dropped.
WatcherRecv ==
    /\ app.pc = "until_done"
    /\ queue # <<>>
    /\ queue' = Tail(queue)
    /\ received' = Append(received, Head(queue))
    /\ app' = [app EXCEPT !.pc = IF Head(queue) = "ManagerDone" THEN "done" ELSE "until_done"]
    /\ UNCHANGED <<closed, permit, tx_pc, rx_pc, rx_result, n_sent>>
    /\ UNCHANGED <<ctxVars, srvVars, txnVars, flowVars, regVars, dspVars, objVars, pureVars>>

\* The command opens its transaction: set_mode, set_position, enable, ..
OpenTransaction ==
    /\ app.pc = "done"
    /\ CreateOutputConfig

NextUntilDone ==
    \/ \E interface \in {WLR_MANAGER, COSMIC_MANAGER}, version \in ConnectVersions :
            ConnectGlobal(interface, version)
    \/ EnterLoop
    \/ \E head \in HeadIds : LoopDispatch(ManagerHead(head))
    \/ LoopDispatch(ManagerDone(n_done + 1))
    \/ LoopDispatch(ManagerFinished)
    \/ LoopDispatch(CallbackDone)
    \/ WatcherRecv
    \/ OpenTransaction

SpecUntilDone == InitConnect /\ [][NextUntilDone]_vars

\* C37: create_output_config returns a transaction without aborting in every
\* state reachable after a ManagerDone message has been delivered to the
\* caller, including states in which a Manager Finished event has been
\* handled since.
C37_TransactionAfterManagerDone == app.pc = "done" => txn # "panicked"

\* Whatever can happen does: the compositor sends what it has to send, the
\* runtime polls both branches of select!.
FairUntilDone == WF_vars(NextUntilDone)

SpecUntilDoneFair == InitConnect /\ [][NextUntilDone]_vars /\ FairUntilDone

\* The base manager was advertised, and only below the least supported version.
OnlyBelowMinVersion ==
    /\ Advertises(WLR_MANAGER)
    /\ \A i \in DOMAIN advertised :
          advertised[i].interface = WLR_MANAGER => advertised[i].version < BaseMinVersion

\* C39: when the server advertises the base output manager only at a version
\* below 2, a command waiting in dispatch_until_manager_done eventually
\* terminates instead of waiting forever.
C39_UnsupportedEndsWait ==
    (app.pc = "until_done" /\ OnlyBelowMinVersion) ~> (app.pc # "until_done")

(***************************************************************************)
(* channel.rs: the order of delivery, with recv and try_recv               *)
(***************************************************************************)
\* Receiver::try_recv: queue.lock().await.pop_front(), between two calls of
\* recv (both take &mut self).
ChannelTryRecv ==
    /\ rx_pc = "idle"
    /\ IF queue # <<>>
       THEN /\ rx_result' = "Some"
            /\ received' = Append(received, Head(queue))
            /\ queue' = Tail(queue)
       ELSE /\ rx_result' = "None"
            /\ UNCHANGED <<queue, received>>
    /\ UNCHANGED <<closed, permit, tx_pc, rx_pc, n_sent>>
    /\ UNCHANGED exceptChan

NextChanBoth ==
    \/ SendPush
    \/ SendNotify
    \/ DropStore
    \/ DropNotify
    \/ RecvCall
    \/ RecvPop
    \/ RecvCheckClosed
    \/ RecvNotified
    \/ ChannelTryRecv

SpecChanBoth == InitChan /\ [][NextChanBoth]_vars

\* The values passed to send so far, in order: the k-th call passes k.
Sent == [k \in 1..n_sent |-> k]

\* C38: the sequence of values returned by recv and try_recv is always a
\* prefix of the sequence of values passed to send: each message is
\* delivered at most once and in send order.
C38_ReceivedIsPrefixOfSent ==
    /\ Len(received) <= Len(Sent)
    /\ \A i \in DOMAIN received : received[i] = Sent[i]

\* Every message sent has been returned, in order, and the sender is dropped.
C38_Witness ==
    /\ n_sent = MaxSend
    /\ received = Sent
    /\ closed
    /\ rx_pc = "idle"
    /\ rx_result = "Some"

====
